---- MODULE Spec2Model ----
(***************************************************************************)
(* Model of the HTML-slide to deck converter.                              *)
(*   html2pptx.js     : getBodyDimensions, validateDimensions,             *)
(*                      validateTextBoxPosition, addBackground,            *)
(*                      addElements, html2pptx                             *)
(*                      extractSlideData: getRotation,                     *)
(*                      getPositionAndSize, parseInlineFormatting, the     *)
(*                      table branch and the walk over the DOM             *)
(*   generate_pptx.js : collectSlides, checkSingleFile, generatePPTX, CLI  *)
(*                                                                         *)
(* Lengths are whole CSS pixels.  Points are kept in tenths of a point     *)
(* (PT_PER_PX = 0.5 is 5 tenths per pixel), so toFixed(1) of a point value *)
(* is exact.  Inches are compared in EMU (914400 per inch, 9525 per pixel).*)
(* JS null / undefined numbers that the code only tests with || are 0.     *)
(* Angles are tenths of a degree.  Column-width ratios are fractions.      *)
(*                                                                         *)
(* Spec follows the CLI and html2pptx step by step.  The functions that    *)
(* run inside page.evaluate are followed on their own inputs by SpecGeom,  *)
(* SpecTable, SpecRuns and SpecDom.                                        *)
(***************************************************************************)
EXTENDS Integers, Sequences, FiniteSets, TLC

\* ---------------------------------------------------------------- bounds
MaxFiles == 2        \* files in the directory listing
MaxCalls == 2        \* html2pptx calls of a library caller on one deck

\* ------------------------------------------------------ program constants
PT_PER_PX_TENTHS == 5          \* PT_PER_PX = 0.5 pt/px, in tenths of a point
PX_PER_IN == 96
EMU_PER_IN == 914400
heightOverflowTolerance == 100 \* points
minBottomMarginTenths == 5     \* minBottomMargin = 0.5in, in tenths of an inch
bottomMarginFontLimit == 12    \* fontSize > 12 (points)
textPrefixLen == 50
SLIDE_WIDTH_IN == 10
SLIDE_HEIGHT_IN_MILLI == 5625  \* SLIDE_HEIGHT_IN = 5.625, in thousandths of an inch
\* presLayout of 'LAYOUT_16x9', in EMU
LAYOUT_16x9_W == SLIDE_WIDTH_IN * EMU_PER_IN
LAYOUT_16x9_H == (SLIDE_HEIGHT_IN_MILLI * (EMU_PER_IN \div 200)) \div 5
PatternMinDigits == 2          \* FILE_PATTERN \d{2,3}
PatternMaxDigits == 3

containerSelectors ==
  <<".slide-container", "[class*=slide-container]", ".content", "[data-slide]", "main">>

\* ---------------------------------------------------------------- helpers
Abs(n) == IF n < 0 THEN -n ELSE n
Max(a, b) == IF a >= b THEN a ELSE b
Or0(a, b) == IF a # 0 THEN a ELSE b            \* JS  a || b  on numbers

\* one validation finding (a diagnostic string): its kind and what it cites
Finding(kind, a, b, txt) == [kind |-> kind, a |-> a, b |-> b, txt |-> txt]

\* ------------------------------------------------- getBodyDimensions
\* parseFloat(s.width) || el.offsetWidth
BoxW(el) == Or0(el.styleW, el.offsetW)
BoxH(el) == Or0(el.styleH, el.offsetH)

\* the selector loop: first match that is positive and narrower than the body
RECURSIVE FindContainer(_, _)
FindContainer(doc, i) ==
  IF i > Len(containerSelectors) THEN [w |-> 0, h |-> 0]
  ELSE LET el == doc.query[i] IN
       IF el.present /\ BoxW(el) > 0 /\ BoxH(el) > 0 /\ BoxW(el) < doc.body.offsetW
       THEN [w |-> BoxW(el), h |-> BoxH(el)]
       ELSE FindContainer(doc, i + 1)

EffectiveWidth(bd) == Or0(bd.containerWidth, bd.width)
EffectiveHeight(bd) == Or0(bd.containerHeight, bd.height)

\* Math.max(0, scrollHeight - effectiveHeight - 1)
OverflowPxMutNoSlack(scroll, effective) == Max(0, scroll - effective)
OverflowPx(scroll, effective) == Max(0, scroll - effective - 1)

\* heightOverflowPx * PT_PER_PX, in tenths of a point
PxToPtTenths(px) == px * PT_PER_PX_TENTHS

OverflowErrors(bd) ==
  LET heightOverflowPt == PxToPtTenths(OverflowPx(bd.scrollHeight, EffectiveHeight(bd)))
      tol == heightOverflowTolerance * 10
  IN IF heightOverflowPt > tol
     THEN << Finding("overflow", heightOverflowPt - tol, heightOverflowTolerance, <<>>) >>
     ELSE << >>

getBodyDimensions(doc) ==
  LET c == FindContainer(doc, 1)
      bd == [width |-> BoxW(doc.body), height |-> BoxH(doc.body),
             scrollWidth |-> doc.body.scrollW, scrollHeight |-> doc.body.scrollH,
             containerWidth |-> c.w, containerHeight |-> c.h]
  IN [width |-> bd.width, height |-> bd.height,
      scrollWidth |-> bd.scrollWidth, scrollHeight |-> bd.scrollHeight,
      containerWidth |-> bd.containerWidth, containerHeight |-> bd.containerHeight,
      errors |-> OverflowErrors(bd)]

\* ------------------------------------------------- validateDimensions
PxToEmu(px) == px * (EMU_PER_IN \div PX_PER_IN)
\* inches.toFixed(1): tenths of an inch, rounded half up
InchesFixed1(emu) == (emu * 10 + EMU_PER_IN \div 2) \div EMU_PER_IN

validateDimensionsMutContainerFirst(bd, pres) ==
  IF ~pres.hasLayout THEN << >>
  ELSE
  LET widthToCheck == PxToEmu(EffectiveWidth(bd))
      heightToCheck == PxToEmu(EffectiveHeight(bd))
  IN IF Abs(pres.layoutW - widthToCheck) > EMU_PER_IN \/ Abs(pres.layoutH - heightToCheck) > EMU_PER_IN
     THEN << Finding("dimensions", InchesFixed1(widthToCheck), InchesFixed1(heightToCheck), <<>>) >>
     ELSE << >>

validateDimensions(bd, pres) ==
  IF ~pres.hasLayout THEN << >>
  ELSE
  LET widthIn == PxToEmu(bd.width)
      heightIn == PxToEmu(bd.height)
      layoutWidth == pres.layoutW
      layoutHeight == pres.layoutH
      effectiveWidth == IF bd.containerWidth # 0 THEN PxToEmu(bd.containerWidth) ELSE widthIn
      effectiveHeight == IF bd.containerHeight # 0 THEN PxToEmu(bd.containerHeight) ELSE heightIn
      widthToCheck == IF Abs(effectiveWidth - layoutWidth) < Abs(widthIn - layoutWidth)
                      THEN effectiveWidth ELSE widthIn
      heightToCheck == IF Abs(effectiveHeight - layoutHeight) < Abs(heightIn - layoutHeight)
                       THEN effectiveHeight ELSE heightIn
  IN IF Abs(layoutWidth - widthToCheck) > EMU_PER_IN \/ Abs(layoutHeight - heightToCheck) > EMU_PER_IN
     THEN << Finding("dimensions", InchesFixed1(widthToCheck), InchesFixed1(heightToCheck), <<>>) >>
     ELSE << >>

\* ------------------------------------------------- validateTextBoxPosition
TextBoxTypes == {"p", "h1", "h2", "h3", "h4", "h5", "h6", "list"}

\* getText().substring(0, 50) + (length > 50 ? '...' : ''), the ellipsis as char 0
TextPrefix(t) ==
  IF Len(t) > textPrefixLen THEN SubSeq(t, 1, textPrefixLen) \o <<0>> ELSE t

TextBoxFinding(el, bd) ==
  LET bottomEdge == el.position.y + el.position.h
      distanceFromBottom == bd.height - bottomEdge          \* px
  IN IF el.type \in TextBoxTypes
        /\ el.style.fontSize > bottomMarginFontLimit * 10
        /\ distanceFromBottom * 10 < minBottomMarginTenths * PX_PER_IN
     THEN << Finding("textbox", distanceFromBottom, 0, TextPrefix(el.text)) >>
     ELSE << >>

RECURSIVE validateTextBoxPositionFrom(_, _, _)
validateTextBoxPositionFrom(els, bd, i) ==
  IF i > Len(els) THEN << >>
  ELSE TextBoxFinding(els[i], bd) \o validateTextBoxPositionFrom(els, bd, i + 1)

validateTextBoxPosition(slideData, bd) ==
  validateTextBoxPositionFrom(slideData.elements, bd, 1)

\* ------------------------------------------------- table structure (html2pptx)
RECURSIVE RowFindings(_, _)
RowFindings(el, rowIdx) ==
  IF rowIdx > Len(el.data) THEN << >>
  ELSE (IF Len(el.data[rowIdx]) # Len(el.colWidths)
        THEN << Finding("table-columns", Len(el.colWidths), Len(el.data[rowIdx]), <<rowIdx>>) >>
        ELSE << >>) \o RowFindings(el, rowIdx + 1)

TableFindingsMutNoRowCheck(el) ==
  IF el.type # "table" THEN << >>
  ELSE (IF Len(el.colWidths) = 0
        THEN << Finding("table-no-colwidths", el.position.x, el.position.y, <<>>) >> ELSE << >>)
       \o (IF Len(el.data) = 0
           THEN << Finding("table-no-data", el.position.x, el.position.y, <<>>) >> ELSE << >>)

TableFindings(el) ==
  IF el.type # "table" THEN << >>
  ELSE (IF Len(el.colWidths) = 0
        THEN << Finding("table-no-colwidths", el.position.x, el.position.y, <<>>) >> ELSE << >>)
       \o (IF Len(el.data) = 0
           THEN << Finding("table-no-data", el.position.x, el.position.y, <<>>) >> ELSE << >>)
       \o (IF Len(el.data) > 0 /\ Len(el.colWidths) > 0 THEN RowFindings(el, 1) ELSE << >>)

RECURSIVE TableStructureFrom(_, _)
TableStructureFrom(els, i) ==
  IF i > Len(els) THEN << >> ELSE TableFindings(els[i]) \o TableStructureFrom(els, i + 1)

\* ------------------------------------------------- the aggregated list
CollectValidationErrors(bd, sd, pres) ==
  bd.errors \o validateDimensions(bd, pres) \o validateTextBoxPosition(sd, bd)
    \o sd.errors \o TableStructureFrom(sd.elements, 1)

\* validationErrors.length === 1 ? validationErrors[0] : numbered list
ErrorMessage(errs) ==
  [prefix |-> << >>,
   multi |-> Len(errs) # 1,
   items |-> [i \in 1..Len(errs) |-> [n |-> IF Len(errs) = 1 THEN 0 ELSE i, e |-> errs[i]]]]

FaultMessage(kind) ==
  [prefix |-> << >>, multi |-> FALSE, items |-> << [n |-> 0, e |-> Finding(kind, 0, 0, <<>>)] >>]

\* the outer catch: prefix the file name unless the message already starts with it
StartsWith(msg, file) == msg.prefix # << >> /\ Head(msg.prefix) = file
WrapError(msg, file) ==
  IF ~StartsWith(msg, file) THEN [msg EXCEPT !.prefix = <<file>> \o @] ELSE msg

\* ------------------------------------------------- input documents
\* A document is what the renderer reports for one HTML file: the body box,
\* the element each container selector finds, the result of extractSlideData,
\* and the step of the browser session that faults for it ("none": no fault).
Faults == {"none", "launch", "newPage", "goto", "dims", "viewport", "extract"}

Body(w, h, scrollH) ==
  [styleW |-> w, styleH |-> h, offsetW |-> w, offsetH |-> h, scrollW |-> w, scrollH |-> scrollH]
NoEl == [present |-> FALSE, styleW |-> 0, styleH |-> 0, offsetW |-> 0, offsetH |-> 0]
Box(w, h) == [present |-> TRUE, styleW |-> w, styleH |-> h, offsetW |-> w, offsetH |-> h]
NoQuery == [i \in 1..Len(containerSelectors) |-> NoEl]
QueryAt(i, el) == [NoQuery EXCEPT ![i] = el]

Pos(x, y, w, h) == [x |-> x, y |-> y, w |-> w, h |-> h]
\* element of slideData.elements; fontSize in tenths of a point;
\* rejected: the deck primitive called for this element throws
Elem(type, pos, fontSize, text, colWidths, data, rejected) ==
  [type |-> type, position |-> pos, style |-> [fontSize |-> fontSize], text |-> text,
   colWidths |-> colWidths, data |-> data, rejected |-> rejected]
TextEl(type, y, h, fontSize) == Elem(type, Pos(40, y, 400, h), fontSize, <<1, 2>>, << >>, << >>, FALSE)
ImageEl(rejected) == Elem("image", Pos(500, 100, 200, 100), 0, << >>, << >>, << >>, rejected)
TableEl(colWidths, data) == Elem("table", Pos(40, 200, 600, 120), 0, << >>, colWidths, data, FALSE)

ColorBg == [type |-> "color", value |-> "FFFFFF", path |-> ""]
ImageBg == [type |-> "image", value |-> "", path |-> "file:///bg.png"]
SlideData(bg, els, phs, errs) ==
  [background |-> bg, elements |-> els, placeholders |-> phs, errors |-> errs]
BareText == Finding("unwrapped-text", 0, 0, <<7, 8>>)
Chart == [id |-> "chart", x |-> 10, y |-> 20, w |-> 300, h |-> 200]

SDEmpty == SlideData(ColorBg, << >>, << >>, << >>)
SDOk == SlideData(ImageBg, << TextEl("h1", 40, 60, 280), ImageEl(FALSE), TextEl("p", 120, 40, 140) >>,
                  <<Chart>>, << >>)
SDCrowd == SlideData(ColorBg, << TextEl("p", 460, 60, 140), TextEl("list", 500, 30, 110) >>, << >>, << >>)
SDBare == SlideData(ColorBg, << TextEl("p", 40, 40, 140) >>, << >>, <<BareText>>)
SDTable == SlideData(ColorBg, << TableEl(<<1, 1>>, << <<1, 2>>, <<3>> >>), TableEl(<< >>, << >>) >>,
                     << >>, << >>)
SDReject == SlideData(ColorBg, << TextEl("p", 40, 40, 140), ImageEl(TRUE), TextEl("p", 120, 40, 140) >>,
                      << >>, << >>)

Doc(fault, body, query, sd) == [fault |-> fault, body |-> body, query |-> query, slideData |-> sd]

\* documents of a batch
DocOk == Doc("none", Body(960, 540, 540), NoQuery, SDOk)
DocMulti == Doc("none", Body(960, 540, 840), NoQuery, SDBare)
DocGoto == Doc("goto", Body(960, 540, 540), NoQuery, SDOk)
DocReject == Doc("none", Body(960, 540, 540), NoQuery, SDReject)
DocCatalogue == {DocOk, DocMulti, DocGoto, DocReject}

\* documents handed to a single html2pptx call
ScrollExcess == {0, 180, 201, 202, 300}
Bodies == {Body(960, 540, 540 + d) : d \in ScrollExcess}
             \cup {Body(1280, 720, 720 + d) : d \in ScrollExcess}
             \cup {Body(640, 360, 360)}
Queries == {NoQuery, QueryAt(5, Box(400, 200)), QueryAt(1, Box(960, 540)),
            [NoQuery EXCEPT ![1] = Box(2000, 540), ![3] = Box(900, 500)]}
SlideDatas == {SDEmpty, SDOk, SDCrowd, SDBare, SDTable, SDReject}
DocSpace == {Doc(f, b, q, sd) : f \in Faults, b \in Bodies, q \in Queries, sd \in SlideDatas}

\* ------------------------------------------------- file names (collectSlides)
\* a directory entry name: its leading digit run, whether "_" follows it,
\* and whether the name ends in ".html"
Name(stem, digits, us, html) == [stem |-> stem, digits |-> digits, us |-> us, html |-> html]
FileNames == { Name("01_a.html", <<0, 1>>, TRUE, TRUE),
               Name("02_b.html", <<0, 2>>, TRUE, TRUE),
               Name("010_c.html", <<0, 1, 0>>, TRUE, TRUE),
               Name("002_d.html", <<0, 0, 2>>, TRUE, TRUE),
               Name("3_e.html", <<3>>, TRUE, TRUE),
               Name("04_f.htm", <<0, 4>>, TRUE, FALSE) }

\* FILE_PATTERN = /^(\d{2,3})_.*\.html$/
MatchesPattern(name) ==
  /\ Len(name.digits) >= PatternMinDigits
  /\ Len(name.digits) <= PatternMaxDigits
  /\ name.us
  /\ name.html

\* parseInt(match[1], 10)
RECURSIVE ParseInt(_)
ParseInt(digits) ==
  IF digits = << >> THEN 0
  ELSE ParseInt(SubSeq(digits, 1, Len(digits) - 1)) * 10 + digits[Len(digits)]

RECURSIVE MatchingSlides(_, _)
MatchingSlides(files, i) ==
  IF i > Len(files) THEN << >>
  ELSE (IF MatchesPattern(files[i].name)
        THEN << [pageNum |-> ParseInt(files[i].name.digits), file |-> files[i].name.stem,
                 doc |-> files[i].doc] >>
        ELSE << >>) \o MatchingSlides(files, i + 1)

\* slides.sort((a, b) => a.pageNum - b.pageNum): stable, ascending
RECURSIVE InsertSorted(_, _)
InsertSorted(sorted, s) ==
  IF sorted = << >> THEN <<s>>
  ELSE IF Head(sorted).pageNum <= s.pageNum
       THEN <<Head(sorted)>> \o InsertSorted(Tail(sorted), s)
       ELSE <<s>> \o sorted

RECURSIVE SortByPageNum(_)
SortByPageNum(ss) ==
  IF ss = << >> THEN << >>
  ELSE InsertSorted(SortByPageNum(SubSeq(ss, 1, Len(ss) - 1)), ss[Len(ss)])

collectSlidesMutNoSort(files) == MatchingSlides(files, 1)
collectSlides(files) == SortByPageNum(MatchingSlides(files, 1))

\* readdirSync results: distinct names in any order, each with its content
Listings ==
  UNION { { l \in [1..n -> [name : FileNames, doc : DocCatalogue]] :
              \A i, j \in 1..n : i # j => l[i].name # l[j].name } : n \in 0..MaxFiles }

\* ------------------------------------------------- state
VARIABLES
  mode,             \* "generate" | "check": generatePPTX; "single": checkSingleFile;
                    \* "lib": a caller using html2pptx as in its USAGE comment
  checkMode,        \* options.checkMode handed to html2pptx
  listing,          \* fs.readdirSync(workDir)
  slides,           \* generatePPTX: slides
  idx,              \* position of the for-of loop over slides (1-based)
  checkErrors,      \* generatePPTX: checkErrors
  writes,           \* number of pptx.writeFile calls
  exitCode,         \* process.exit status, -1 while running
  pc,               \* control position
  pres,             \* the deck object
  cur,              \* html2pptx arguments: htmlFile and what it renders to
  callNo,           \* number of html2pptx calls started
  sessions,         \* browser sessions launched and not closed (by call number)
  browser,          \* this call's session: launched?, number of close() calls
  bodyDimensions, slideData, validationErrors,     \* html2pptx locals
  pending,          \* exception in flight inside html2pptx
  targetSlide,      \* index of targetSlide in pres.slides, 0 before addSlide
  elemIdx,          \* position of the addElements loop
  ret,              \* how the last html2pptx call ended
  results,          \* history: one record per finished html2pptx call
  calls,            \* history: deck primitives invoked, with the call number
  evalIn,           \* page.evaluate: the rendered node handed to one extraction function
  evalOut,          \* page.evaluate: what that function returned
  evalPc            \* page.evaluate: "idle" | name of the function to run | "done"

vars == <<mode, checkMode, listing, slides, idx, checkErrors, writes, exitCode, pc, pres, cur,
          callNo, sessions, browser, bodyDimensions, slideData, validationErrors, pending,
          targetSlide, elemIdx, ret, results, calls, evalIn, evalOut, evalPc>>

evalVars == <<evalIn, evalOut, evalPc>>
driverVars == <<mode, checkMode, listing, slides, idx, checkErrors, writes, exitCode>>
localVars == <<bodyDimensions, slideData, validationErrors, targetSlide, elemIdx>>

NoMsg == [prefix |-> << >>, multi |-> FALSE, items |-> << >>]
NoPending == [thrown |-> FALSE, msg |-> NoMsg]
Thrown(msg) == [thrown |-> TRUE, msg |-> msg]
NoDims == [width |-> 0, height |-> 0, scrollWidth |-> 0, scrollHeight |-> 0,
           containerWidth |-> 0, containerHeight |-> 0, errors |-> << >>]
NoSlideData == SlideData([type |-> "", value |-> "", path |-> ""], << >>, << >>, << >>)
NoRet == [status |-> "none", slide |-> 0, placeholders |-> << >>, checkMode |-> FALSE, msg |-> NoMsg]
NoCur == [file |-> "", doc |-> DocOk]
NoBrowser == [launched |-> FALSE, closes |-> 0]

\* new pptxgen(); pptx.layout = 'LAYOUT_16x9'
NewDeck == [hasLayout |-> TRUE, layoutW |-> LAYOUT_16x9_W, layoutH |-> LAYOUT_16x9_H, slides |-> << >>]

InitCommon ==
  /\ checkErrors = << >> /\ writes = 0 /\ exitCode = -1 /\ idx = 0
  /\ pres = NewDeck /\ cur = NoCur /\ callNo = 0 /\ sessions = {} /\ browser = NoBrowser
  /\ bodyDimensions = NoDims /\ slideData = NoSlideData /\ validationErrors = << >>
  /\ pending = NoPending /\ targetSlide = 0 /\ elemIdx = 0 /\ ret = NoRet
  /\ results = << >> /\ calls = << >>

\* No extraction function is being looked at on its own
EvalIdle == evalIn = << >> /\ evalOut = << >> /\ evalPc = "idle"

\* node generate_pptx.js [--check] <work_dir>   |   node generate_pptx.js <page.html>
InitCli ==
  /\ mode \in {"generate", "check", "single"}
  /\ checkMode = (mode # "generate")
  /\ listing \in Listings
  /\ mode = "single" => (Len(listing) = 1 /\ listing[1].name.html)
  /\ slides = << >>
  /\ pc = "cli"

\* const { slide, placeholders } = await html2pptx('slide.html', pptx [, { checkMode }])
InitLib ==
  /\ mode = "lib"
  /\ checkMode \in BOOLEAN
  /\ listing = << >>
  /\ slides \in { << [pageNum |-> 0, file |-> "slide.html", doc |-> d] >> : d \in DocSpace }
  /\ pc = "lib"

Init == InitCommon /\ EvalIdle /\ (InitCli \/ InitLib)

\* ------------------------------------------------- html2pptx, step by step
StartCall(file, doc) ==
  /\ cur' = [file |-> file, doc |-> doc]
  /\ callNo' = callNo + 1
  /\ browser' = NoBrowser
  /\ pending' = NoPending
  /\ ret' = NoRet
  /\ pc' = "h_launch"

\* the try ... finally around the page work: every exit runs the finally block
InnerTryExitMutNoFinally(thrown) == IF thrown THEN "h_catch" ELSE "h_finally"
InnerTryExit(thrown) == "h_finally"

\* const validationErrors = []
FreshValidationErrorsMutKeep(prev) == prev
FreshValidationErrors(prev) == << >>

\* if (validationErrors.length > 0) throw
ShouldThrowMutOnlyComposite(errs) == Len(errs) > 1
ShouldThrow(errs) == Len(errs) > 0

\* if (checkMode) return { slide: null, ... }
SkipsEmissionMutNever(cm) == FALSE
SkipsEmission(cm) == cm

\* chromium.launch(launchOptions); let bodyDimensions; let slideData; validationErrors = []
H_Launch ==
  /\ pc = "h_launch"
  /\ IF cur.doc.fault = "launch"
     THEN /\ pending' = Thrown(FaultMessage("launch"))
          /\ pc' = "h_catch"
          /\ UNCHANGED <<sessions, browser, bodyDimensions, slideData, validationErrors>>
     ELSE /\ sessions' = sessions \cup {callNo}
          /\ browser' = [launched |-> TRUE, closes |-> 0]
          /\ bodyDimensions' = NoDims
          /\ slideData' = NoSlideData
          /\ validationErrors' = FreshValidationErrors(validationErrors)
          /\ pc' = "h_newPage"
          /\ UNCHANGED pending
  /\ UNCHANGED <<driverVars, evalVars, pres, cur, callNo, targetSlide, elemIdx, ret, results, calls>>

\* one awaited step inside the inner try: it either throws or goes on
PageStep(here, fault, next) ==
  /\ pc = here
  /\ IF cur.doc.fault = fault
     THEN /\ pending' = Thrown(FaultMessage(fault))
          /\ pc' = InnerTryExit(TRUE)
     ELSE /\ pc' = next
          /\ UNCHANGED pending

\* browser.newPage()
H_NewPage ==
  /\ PageStep("h_newPage", "newPage", "h_goto")
  /\ UNCHANGED <<driverVars, evalVars, localVars, pres, cur, callNo, sessions, browser, ret, results, calls>>

\* page.goto(`file://${filePath}`): fails on load error or timeout
H_Goto ==
  /\ PageStep("h_goto", "goto", "h_dims")
  /\ UNCHANGED <<driverVars, evalVars, localVars, pres, cur, callNo, sessions, browser, ret, results, calls>>

\* bodyDimensions = await getBodyDimensions(page)
H_Dims ==
  /\ PageStep("h_dims", "dims", "h_viewport")
  /\ bodyDimensions' = IF cur.doc.fault = "dims" THEN bodyDimensions ELSE getBodyDimensions(cur.doc)
  /\ UNCHANGED <<driverVars, evalVars, slideData, validationErrors, targetSlide, elemIdx,
                 pres, cur, callNo, sessions, browser, ret, results, calls>>

\* page.setViewportSize(...)
H_Viewport ==
  /\ PageStep("h_viewport", "viewport", "h_extract")
  /\ UNCHANGED <<driverVars, evalVars, localVars, pres, cur, callNo, sessions, browser, ret, results, calls>>

\* slideData = await extractSlideData(page); leaving the try normally
H_Extract ==
  /\ pc = "h_extract"
  /\ IF cur.doc.fault = "extract"
     THEN /\ pending' = Thrown(FaultMessage("extract"))
          /\ pc' = InnerTryExit(TRUE)
          /\ UNCHANGED slideData
     ELSE /\ slideData' = cur.doc.slideData
          /\ pc' = InnerTryExit(FALSE)
          /\ UNCHANGED pending
  /\ UNCHANGED <<driverVars, evalVars, bodyDimensions, validationErrors, targetSlide, elemIdx,
                 pres, cur, callNo, sessions, browser, ret, results, calls>>

\* await browser.close(): the session of this call ends
CloseSessionMutLeaveOpen(open, call) == open
CloseSession(open, call) == open \ {call}

\* finally { await browser.close(); }
H_Finally ==
  /\ pc = "h_finally"
  /\ sessions' = CloseSession(sessions, callNo)
  /\ browser' = [browser EXCEPT !.closes = @ + 1]
  /\ pc' = IF pending.thrown THEN "h_catch" ELSE "h_validate"
  /\ UNCHANGED <<driverVars, evalVars, localVars, pres, cur, callNo, pending, ret, results, calls>>

\* lines 1508-1555: collect every finding into validationErrors
H_Validate ==
  /\ pc = "h_validate"
  /\ validationErrors' = validationErrors \o CollectValidationErrors(bodyDimensions, slideData, pres)
  /\ pc' = "h_decide"
  /\ UNCHANGED <<driverVars, evalVars, bodyDimensions, slideData, targetSlide, elemIdx,
                 pres, cur, callNo, sessions, browser, pending, ret, results, calls>>

\* if (validationErrors.length > 0) throw new Error(errorMessage)
H_Throw ==
  /\ pc = "h_decide"
  /\ ShouldThrow(validationErrors)
  /\ pending' = Thrown(ErrorMessage(validationErrors))
  /\ pc' = "h_catch"
  /\ UNCHANGED <<driverVars, evalVars, localVars, pres, cur, callNo, sessions, browser, ret, results, calls>>

Finished(status, slide, msg) ==
  [call |-> callNo, file |-> cur.file, doc |-> cur.doc, checkMode |-> checkMode,
   status |-> status, slide |-> slide, msg |-> msg,
   errors |-> IF browser.launched THEN validationErrors ELSE << >>,
   closes |-> browser.closes, launched |-> browser.launched]

\* if (checkMode) return { slide: null, placeholders, checkMode: true }
H_CheckReturn ==
  /\ pc = "h_decide"
  /\ ~ShouldThrow(validationErrors)
  /\ SkipsEmission(checkMode)
  /\ ret' = [status |-> "ok", slide |-> 0, placeholders |-> slideData.placeholders,
             checkMode |-> TRUE, msg |-> NoMsg]
  /\ results' = Append(results, Finished("ok", 0, NoMsg))
  /\ pc' = "ret"
  /\ UNCHANGED <<driverVars, evalVars, localVars, pres, cur, callNo, sessions, browser, pending, calls>>

\* const targetSlide = slide || pres.addSlide()
H_AddSlide ==
  /\ pc = "h_decide"
  /\ ~ShouldThrow(validationErrors)
  /\ ~SkipsEmission(checkMode)
  /\ pres' = [pres EXCEPT !.slides =
                Append(@, [file |-> cur.file, call |-> callNo,
                           background |-> [kind |-> "none", v |-> ""], objects |-> << >>])]
  /\ targetSlide' = Len(pres.slides) + 1
  /\ calls' = Append(calls, [op |-> "addSlide", call |-> callNo])
  /\ pc' = "h_background"
  /\ UNCHANGED <<driverVars, evalVars, bodyDimensions, slideData, validationErrors, elemIdx,
                 cur, callNo, sessions, browser, pending, ret, results>>

\* addBackground(slideData, targetSlide, tmpDir)
BackgroundOf(sd) ==
  IF sd.background.type = "image" /\ sd.background.path # ""
  THEN [kind |-> "path", v |-> sd.background.path]
  ELSE IF sd.background.type = "color" /\ sd.background.value # ""
       THEN [kind |-> "color", v |-> sd.background.value]
       ELSE [kind |-> "none", v |-> ""]

H_Background ==
  /\ pc = "h_background"
  /\ LET bg == BackgroundOf(slideData) IN
       IF bg.kind # "none"
       THEN /\ pres' = [pres EXCEPT !.slides[targetSlide].background = bg]
            /\ calls' = Append(calls, [op |-> "background", call |-> callNo])
       ELSE UNCHANGED <<pres, calls>>
  /\ elemIdx' = 1
  /\ pc' = "h_elements"
  /\ UNCHANGED <<driverVars, evalVars, bodyDimensions, slideData, validationErrors, targetSlide,
                 cur, callNo, sessions, browser, pending, ret, results>>

\* the primitive addElements calls for an element
PrimitiveOf(el) ==
  CASE el.type = "image" -> "addImage"
    [] el.type = "line" -> "addShape"
    [] el.type = "table" -> "addTable"
    [] OTHER -> "addText"

\* one iteration of the for-of loop in addElements
H_AddElement ==
  /\ pc = "h_elements"
  /\ elemIdx <= Len(slideData.elements)
  /\ LET el == slideData.elements[elemIdx] IN
       /\ calls' = Append(calls, [op |-> PrimitiveOf(el), call |-> callNo])
       /\ IF el.rejected
          THEN /\ pending' = Thrown(FaultMessage(PrimitiveOf(el)))
               /\ pc' = "h_catch"
               /\ UNCHANGED <<pres, elemIdx>>
          ELSE /\ pres' = [pres EXCEPT !.slides[targetSlide].objects =
                             Append(@, [op |-> PrimitiveOf(el), el |-> elemIdx])]
               /\ elemIdx' = elemIdx + 1
               /\ UNCHANGED <<pending, pc>>
  /\ UNCHANGED <<driverVars, evalVars, bodyDimensions, slideData, validationErrors, targetSlide,
                 cur, callNo, sessions, browser, ret, results>>

\* return { slide: targetSlide, placeholders, checkMode: false }
H_Return ==
  /\ pc = "h_elements"
  /\ elemIdx > Len(slideData.elements)
  /\ ret' = [status |-> "ok", slide |-> targetSlide, placeholders |-> slideData.placeholders,
             checkMode |-> FALSE, msg |-> NoMsg]
  /\ results' = Append(results, Finished("ok", targetSlide, NoMsg))
  /\ pc' = "ret"
  /\ UNCHANGED <<driverVars, evalVars, localVars, pres, cur, callNo, sessions, browser, pending, calls>>

\* catch (error) { prefix htmlFile unless already there; rethrow }
H_Catch ==
  /\ pc = "h_catch"
  /\ LET msg == WrapError(pending.msg, cur.file) IN
       /\ ret' = [status |-> "err", slide |-> 0, placeholders |-> << >>,
                  checkMode |-> checkMode, msg |-> msg]
       /\ results' = Append(results, Finished("err", 0, msg))
  /\ pending' = NoPending
  /\ pc' = "ret"
  /\ UNCHANGED <<driverVars, evalVars, localVars, pres, cur, callNo, sessions, browser, calls>>

\* ------------------------------------------------- generatePPTX
BatchMode == mode \in {"generate", "check"}

\* catch in the loop: generation mode rethrows, check mode records and goes on
AbortsOnErrorMutNever(m) == FALSE
AbortsOnErrorMutAlways(m) == TRUE
AbortsOnError(m) == m = "generate"

\* lines 108-139: collect the slides, create the deck
G_Collect ==
  /\ pc = "cli" /\ BatchMode
  /\ slides' = collectSlides(listing)
  /\ IF slides' = << >>
     THEN /\ exitCode' = 1 /\ pc' = "exit" /\ UNCHANGED <<pres, idx, checkErrors>>
     ELSE /\ pres' = NewDeck /\ checkErrors' = << >> /\ idx' = 1 /\ pc' = "loop"
          /\ UNCHANGED exitCode
  /\ UNCHANGED <<evalVars, mode, checkMode, listing, writes, localVars, cur, callNo, sessions, browser,
                 pending, ret, results, calls>>

\* for (const slide of slides) { ... await html2pptx(slide.path, pptx, { checkMode }) }
G_Call ==
  /\ pc = "loop" /\ idx <= Len(slides)
  /\ StartCall(slides[idx].file, slides[idx].doc)
  /\ UNCHANGED <<driverVars, evalVars, localVars, pres, sessions, results, calls>>

\* html2pptx returned
G_Ok ==
  /\ pc = "ret" /\ BatchMode /\ ret.status = "ok"
  /\ idx' = idx + 1
  /\ pc' = "loop"
  /\ UNCHANGED <<evalVars, mode, checkMode, listing, slides, checkErrors, writes, exitCode, localVars, pres,
                 cur, callNo, sessions, browser, pending, ret, results, calls>>

\* html2pptx threw
G_Err ==
  /\ pc = "ret" /\ BatchMode /\ ret.status = "err"
  /\ IF AbortsOnError(mode)
     THEN /\ exitCode' = 1 /\ pc' = "exit" /\ UNCHANGED <<idx, checkErrors>>
     ELSE /\ checkErrors' = Append(checkErrors, [slide |-> slides[idx].file, error |-> ret.msg])
          /\ idx' = idx + 1 /\ pc' = "loop" /\ UNCHANGED exitCode
  /\ UNCHANGED <<evalVars, mode, checkMode, listing, slides, writes, localVars, pres,
                 cur, callNo, sessions, browser, pending, ret, results, calls>>

\* check mode: process.exit(1) when checkErrors is not empty, else .then(() => process.exit(0))
CheckExitStatusMutAlwaysZero(errs) == 0
CheckExitStatus(errs) == IF errs = << >> THEN 0 ELSE 1

\* after the loop: report (check mode) or pptx.writeFile (generation mode)
G_Finish ==
  /\ pc = "loop" /\ idx > Len(slides)
  /\ IF checkMode
     THEN /\ exitCode' = CheckExitStatus(checkErrors)
          /\ UNCHANGED writes
     ELSE /\ writes' = writes + 1
          /\ exitCode' = 0
  /\ pc' = "exit"
  /\ UNCHANGED <<evalVars, mode, checkMode, listing, slides, idx, checkErrors, localVars, pres,
                 cur, callNo, sessions, browser, pending, ret, results, calls>>

\* ------------------------------------------------- checkSingleFile
S_Call ==
  /\ pc = "cli" /\ mode = "single"
  /\ pres' = NewDeck
  /\ StartCall(listing[1].name.stem, listing[1].doc)
  /\ UNCHANGED <<driverVars, evalVars, localVars, sessions, results, calls>>

S_Done ==
  /\ pc = "ret" /\ mode = "single"
  /\ exitCode' = IF ret.status = "ok" THEN 0 ELSE 1
  /\ pc' = "exit"
  /\ UNCHANGED <<evalVars, mode, checkMode, listing, slides, idx, checkErrors, writes, localVars, pres,
                 cur, callNo, sessions, browser, pending, ret, results, calls>>

\* ------------------------------------------------- a caller of the module
L_Call ==
  /\ pc = "lib" /\ callNo < MaxCalls
  /\ StartCall(slides[1].file, slides[1].doc)
  /\ UNCHANGED <<driverVars, evalVars, localVars, pres, sessions, results, calls>>

L_Ret ==
  /\ pc = "ret" /\ mode = "lib"
  /\ pc' = "lib"
  /\ UNCHANGED <<driverVars, evalVars, localVars, pres, cur, callNo, sessions, browser, pending, ret,
                 results, calls>>

Next ==
  \/ G_Collect \/ G_Call \/ G_Ok \/ G_Err \/ G_Finish
  \/ S_Call \/ S_Done
  \/ L_Call \/ L_Ret
  \/ H_Launch \/ H_NewPage \/ H_Goto \/ H_Dims \/ H_Viewport \/ H_Extract \/ H_Finally
  \/ H_Validate \/ H_Throw \/ H_CheckReturn \/ H_AddSlide \/ H_Background \/ H_AddElement
  \/ H_Return \/ H_Catch

Spec == Init /\ [][Next]_vars

\* ------------------------------------------------- page.evaluate: geometry
\* The main variables while one extraction function is looked at on its own
Parked ==
  /\ InitCommon
  /\ mode = "page" /\ checkMode = FALSE /\ listing = << >> /\ slides = << >> /\ pc = "page"

\* Angles are tenths of a degree, so that rotate(0.5deg) is exact.
DEG == 10
VERTICAL_RL == 90 * DEG
VERTICAL_LR == 270 * DEG
FULL_TURN == 360 * DEG
QUARTER == 90 * DEG
THREE_QUARTERS == 270 * DEG

\* JS a % n: the result has the sign of the dividend
JsRem(a, n) == IF a >= 0 THEN a % n ELSE -((-a) % n)

\* computed.transform as getRotation reads it
NoTransform == [kind |-> "none", angle |-> 0]        \* 'none', '' or undefined
RotateFn(t) == [kind |-> "rotate", angle |-> t]      \* 'rotate(<t/10>deg)', matched by rotateMatch
MatrixFn(d) == [kind |-> "matrix", angle |-> d]      \* 'matrix(a, b, ...)' with
                                                     \* Math.round(atan2(b, a) * 180 / PI) = d
OtherTransform == [kind |-> "other", angle |-> 0]    \* matches neither regex, e.g. 'matrix3d(...)'

NullRotation == [null |-> TRUE, angle |-> 0]
Rotation(a) == [null |-> FALSE, angle |-> a]

WritingModeAngle(writingMode) ==
  CASE writingMode = "vertical-rl" -> VERTICAL_RL
    [] writingMode = "vertical-lr" -> VERTICAL_LR
    [] OTHER -> 0

TransformAngle(transform) ==
  CASE transform.kind = "rotate" -> transform.angle
    [] transform.kind = "matrix" -> transform.angle * DEG
    [] OTHER -> 0

NormalizeAngleMutNoWrap(angle) == JsRem(angle, FULL_TURN)

\* angle = angle % 360; if (angle < 0) angle += 360;
NormalizeAngle(angle) ==
  LET r == JsRem(angle, FULL_TURN) IN IF r < 0 THEN r + FULL_TURN ELSE r

getRotation(transform, writingMode) ==
  LET angle == NormalizeAngle(WritingModeAngle(writingMode) + TransformAngle(transform))
  IN  IF angle = 0 THEN NullRotation ELSE Rotation(angle)

\* A DOMRect after adjustRect, in pixels
Rect(left, top, width, height) == [left |-> left, top |-> top, width |-> width, height |-> height]

\* Positions are returned doubled (x2 = 2x, y2 = 2y): centerX - rect.height / 2 is a half pixel
\* when the sizes have different parity.  w and h are pixels.
PosAndSize(x2, y2, w, h) == [x2 |-> x2, y2 |-> y2, w |-> w, h |-> h]

getPositionAndSizeMutNoSwap(el, rect, rotation) ==
  IF rotation.null \/ rotation.angle \in {QUARTER, THREE_QUARTERS}
    THEN PosAndSize(2 * rect.left, 2 * rect.top, rect.width, rect.height)
    ELSE PosAndSize(2 * rect.left + rect.width - el.offsetWidth,
                    2 * rect.top + rect.height - el.offsetHeight,
                    el.offsetWidth, el.offsetHeight)

getPositionAndSize(el, rect, rotation) ==
  IF rotation.null
    THEN PosAndSize(2 * rect.left, 2 * rect.top, rect.width, rect.height)
    ELSE IF rotation.angle \in {QUARTER, THREE_QUARTERS}
      THEN \* centerX - rect.height / 2, centerY - rect.width / 2, swapped sizes
           PosAndSize(2 * rect.left + rect.width - rect.height,
                      2 * rect.top + rect.height - rect.width,
                      rect.height, rect.width)
      ELSE \* centerX - el.offsetWidth / 2, centerY - el.offsetHeight / 2
           PosAndSize(2 * rect.left + rect.width - el.offsetWidth,
                      2 * rect.top + rect.height - el.offsetHeight,
                      el.offsetWidth, el.offsetHeight)

MaxDeg == 365        \* rotate() arguments range over -MaxDeg .. MaxDeg degrees, in tenths

WritingModes == {"horizontal-tb", "vertical-rl", "vertical-lr"}
Transforms ==
  {NoTransform, OtherTransform}
    \cup {RotateFn(t) : t \in (0 - MaxDeg * DEG) .. (MaxDeg * DEG)}
    \cup {MatrixFn(d) : d \in -180 .. 180}

\* Text nodes as extraction step 1338-1340 lets them through: a non-empty rendered box
TextRects == {Rect(l, 12, w, h) : l \in {0, 7}, w \in {40, 101}, h \in {33}}

\* el as the text branch sees it: computed style, adjusted rect, layout box
TextNode(transform, writingMode, rect) ==
  [transform |-> transform, writingMode |-> writingMode, rect |-> rect,
   offsetWidth |-> rect.height + 3, offsetHeight |-> rect.width - 5]

TextNodes == {TextNode(t, wm, r) : t \in Transforms, wm \in WritingModes, r \in TextRects}

NoGeom == [rotation |-> NullRotation, pos |-> PosAndSize(0, 0, 0, 0)]

InitGeom ==
  /\ Parked
  /\ evalIn \in TextNodes
  /\ evalOut = NoGeom
  /\ evalPc = "getRotation"

\* const rotation = getRotation(computed.transform, computed.writingMode);
E_GetRotation ==
  /\ evalPc = "getRotation"
  /\ evalOut' = [evalOut EXCEPT !.rotation = getRotation(evalIn.transform, evalIn.writingMode)]
  /\ evalPc' = "getPositionAndSize"
  /\ UNCHANGED <<driverVars, localVars, pc, pres, cur, callNo, sessions, browser, pending, ret,
                 results, calls, evalIn>>

\* const { x, y, w, h } = getPositionAndSize(el, rect, rotation);
E_GetPositionAndSize ==
  /\ evalPc = "getPositionAndSize"
  /\ evalOut' = [evalOut EXCEPT !.pos = getPositionAndSize(evalIn, evalIn.rect, evalOut.rotation)]
  /\ evalPc' = "done"
  /\ UNCHANGED <<driverVars, localVars, pc, pres, cur, callNo, sessions, browser, pending, ret,
                 results, calls, evalIn>>

NextGeom == E_GetRotation \/ E_GetPositionAndSize

SpecGeom == InitGeom /\ [][NextGeom]_vars

\* ------------------------------------------------- page.evaluate: tables
MaxCols == 2         \* cells in a table row
MaxRows == 2         \* rows outside thead

\* A rendered cell: its tag and getBoundingClientRect().width
Cell(tag, width) == [tag |-> tag, width |-> width]
\* Rendered width of the cell in column j
CellPx(j) == 40 + 20 * j

\* A rendered <table>: head is the rows of 'thead tr' (at most one here), rows are the
\* tr elements outside thead; rect is the adjusted bounding box
Table(head, rows, rect) == [head |-> head, rows |-> rows, rect |-> rect]

IsTH(cell) == cell.tag = "TH"
IsTD(cell) == cell.tag = "TD"
\* row.querySelectorAll('th')  /  row.querySelectorAll('td')
ThCells(row) == SelectSeq(row, IsTH)
TdCells(row) == SelectSeq(row, IsTD)
HasTh(row) == \E i \in 1..Len(row) : IsTH(row[i])

\* a column-width ratio, cell width / table width, kept as a fraction
Ratio(num, den) == [num |-> num, den |-> den]
WidthRatiosMutEqualShares(cells, tableWidth) == [i \in 1..Len(cells) |-> Ratio(1, Len(cells))]
WidthRatios(cells, tableWidth) == [i \in 1..Len(cells) |-> Ratio(cells[i].width, tableWidth)]

\* The cells whose widths become colWidths
ColWidthCells(t) ==
  IF Len(t.head) > 0 THEN ThCells(t.head[1])
  ELSE IF Len(t.rows) > 0
    THEN (IF HasTh(t.rows[1]) THEN ThCells(t.rows[1]) ELSE TdCells(t.rows[1]))
    ELSE << >>

RowCellsMutTdOnly(row) == TdCells(row)

\* cells = hasThElements ? th cells : td cells
RowCells(row) == IF HasTh(row) THEN ThCells(row) ELSE TdCells(row)

TableData(t) ==
  (IF Len(t.head) > 0 THEN << ThCells(t.head[1]) >> ELSE << >>)
    \o [i \in 1..Len(t.rows) |-> RowCells(t.rows[i])]

\* The elements the TABLE branch pushes: none for an empty box, else one table element
ExtractTable(t) ==
  IF t.rect.width = 0 \/ t.rect.height = 0 THEN << >>
  ELSE << Elem("table", Pos(t.rect.left, t.rect.top, t.rect.width, t.rect.height), 0, << >>,
               WidthRatios(ColWidthCells(t), t.rect.width), TableData(t), FALSE) >>

\* colW: el.colWidths.map(w => el.position.w * w)
TableColW(el) == [i \in 1..Len(el.colWidths) |->
                    (el.position.w * el.colWidths[i].num) \div el.colWidths[i].den]

\* Rows of up to MaxCols cells; the cell in column j is CellPx(j) wide
RECURSIVE RowsOfLen(_)
RowsOfLen(n) ==
  IF n = 0 THEN { << >> }
  ELSE { Append(r, Cell(tag, CellPx(n))) : r \in RowsOfLen(n - 1), tag \in {"TH", "TD"} }
DomRows == UNION { RowsOfLen(n) : n \in 0..MaxCols }

RECURSIVE SeqsUpTo(_, _)
SeqsUpTo(S, n) ==
  IF n = 0 THEN { << >> }
  ELSE SeqsUpTo(S, n - 1) \cup { Append(q, x) : q \in { r \in SeqsUpTo(S, n - 1) : Len(r) = n - 1 }, x \in S }

RECURSIVE SumWidths(_, _)
SumWidths(cells, i) == IF i > Len(cells) THEN 0 ELSE cells[i].width + SumWidths(cells, i + 1)

\* CSS table layout: the table is as wide as the cells of its first row plus the
\* border-spacing around and between them (2px unless border-collapse: collapse)
CellSpacings == {0, 2}
LayoutRow(head, rows) == IF Len(head) > 0 THEN head[1] ELSE IF Len(rows) > 0 THEN rows[1] ELSE << >>
TableWidth(head, rows, spacing) ==
  SumWidths(LayoutRow(head, rows), 1) + spacing * (Len(LayoutRow(head, rows)) + 1)

Tables ==
  { Table(head, rows, Rect(40, 200, TableWidth(head, rows, sp), h)) :
      head \in SeqsUpTo(DomRows, 1), rows \in SeqsUpTo(DomRows, MaxRows),
      sp \in CellSpacings, h \in {0, 120} }

NoTableOut == [elements |-> << >>, errors |-> << >>, colW |-> << >>]

InitTable ==
  /\ Parked
  /\ evalIn \in Tables
  /\ evalOut = NoTableOut
  /\ evalPc = "extractTable"

\* extractSlideData, TABLE branch
E_ExtractTable ==
  /\ evalPc = "extractTable"
  /\ evalOut' = [evalOut EXCEPT !.elements = ExtractTable(evalIn)]
  /\ evalPc' = "validateTable"
  /\ UNCHANGED <<driverVars, localVars, pc, pres, cur, callNo, sessions, browser, pending, ret,
                 results, calls, evalIn>>

\* html2pptx: validate table structure, throw if anything was found
E_ValidateTable ==
  /\ evalPc = "validateTable"
  /\ LET errs == TableStructureFrom(evalOut.elements, 1)
     IN  /\ evalOut' = [evalOut EXCEPT !.errors = errs]
         /\ evalPc' = IF ShouldThrow(errs) THEN "thrown" ELSE "addElements"
  /\ UNCHANGED <<driverVars, localVars, pc, pres, cur, callNo, sessions, browser, pending, ret,
                 results, calls, evalIn>>

\* addElements, table branch
E_EmitTable ==
  /\ evalPc = "addElements"
  /\ evalOut' = [evalOut EXCEPT !.colW = IF Len(evalOut.elements) = 0 THEN << >>
                                         ELSE TableColW(evalOut.elements[1])]
  /\ evalPc' = "emitted"
  /\ UNCHANGED <<driverVars, localVars, pc, pres, cur, callNo, sessions, browser, pending, ret,
                 results, calls, evalIn>>

NextTable == E_ExtractTable \/ E_ValidateTable \/ E_EmitTable

SpecTable == InitTable /\ [][NextTable]_vars

\* ------------------------------------------------- page.evaluate: inline runs
MaxTokens == 6       \* tokens of the markup inside one text block
MaxDepth == 2        \* nesting of inline elements

\* The child nodes of a text block in document order, as the tokens of its markup:
\* a text node, <br>, an opening tag with the element's computed style, a closing tag.
\* Characters are one-character strings; " " and "\n" are the whitespace of \s.
TextTok(chars) == [kind |-> "text", text |-> chars, tag |-> "", bold |-> FALSE, italic |-> FALSE, icon |-> FALSE]
BrTok == [kind |-> "br", text |-> <<"\n">>, tag |-> "BR", bold |-> FALSE, italic |-> FALSE, icon |-> FALSE]
OpenTok(tag, bold, italic, icon) ==
  [kind |-> "open", text |-> << >>, tag |-> tag, bold |-> bold, italic |-> italic, icon |-> icon]
CloseTok == [kind |-> "close", text |-> << >>, tag |-> "", bold |-> FALSE, italic |-> FALSE, icon |-> FALSE]

IsSpace(c) == c \in {" ", "\n"}
RECURSIVE TrimStart(_)
\* text.replace(/^\s+/, '')
TrimStart(t) == IF t # << >> /\ IsSpace(Head(t)) THEN TrimStart(Tail(t)) ELSE t
RECURSIVE TrimEnd(_)
\* text.replace(/\s+$/, '')
TrimEnd(t) == IF t # << >> /\ IsSpace(t[Len(t)]) THEN TrimEnd(SubSeq(t, 1, Len(t) - 1)) ELSE t
RECURSIVE Collapse(_)
\* text.replace(/\s+/g, ' ')
Collapse(t) ==
  IF t = << >> THEN << >>
  ELSE IF IsSpace(Head(t)) THEN <<" ">> \o Collapse(TrimStart(t))
  ELSE <<Head(t)>> \o Collapse(Tail(t))
\* text.trim() === ''
IsBlank(t) == TrimStart(t) = << >>
HasNewline(t) == \E i \in 1..Len(t) : t[i] = "\n"

\* run options: a FALSE field is a key the object does not have
Options(bold, italic, fontSize) == [bold |-> bold, italic |-> italic, fontSize |-> fontSize]
NoOptions == Options(FALSE, FALSE, FALSE)
\* { ...a, ...b }
Spread(a, b) == Options(a.bold \/ b.bold, a.italic \/ b.italic, a.fontSize \/ b.fontSize)
Run(text, options) == [text |-> text, options |-> options]
ICON == <<"→">>

StyledTags == {"SPAN", "B", "STRONG", "I", "EM", "U"}

RECURSIVE MatchingClose(_, _, _)
\* position of the closing tag of the element whose content starts at i
MatchingClose(tokens, i, depth) ==
  IF tokens[i].kind = "close"
    THEN (IF depth = 0 THEN i ELSE MatchingClose(tokens, i + 1, depth - 1))
    ELSE MatchingClose(tokens, i + 1, IF tokens[i].kind = "open" THEN depth + 1 ELSE depth)
\* node.textContent.trim() of the element opened at i
ElementHasText(tokens, i) ==
  \E k \in (i + 1)..MatchingClose(tokens, i + 1, 0) :
    tokens[k].kind = "text" /\ ~IsBlank(tokens[k].text)

\* one invocation of parseInlineFormatting: its baseOptions and its prevNodeIsText
Frame(options, prev) == [options |-> options, prevNodeIsText |-> prev]
SetPrev(stack, prev) == [stack EXCEPT ![Len(stack)].prevNodeIsText = prev]
Top(stack) == stack[Len(stack)]

\* lines 646-649
TrimEnds(runs) ==
  IF runs = << >> THEN runs
  ELSE LET r1 == [runs EXCEPT ![1].text = TrimStart(@)]
       IN  [r1 EXCEPT ![Len(r1)].text = TrimEnd(@)]

\* the trim that runs when a recursive invocation ends
NestedTrim(runs) == TrimEnds(runs)

ShouldMergeMutSameOptions(stack, runs) ==
  runs # << >> /\ runs[Len(runs)].options = Top(stack).options

\* if (prevNodeIsText && prevRun)
ShouldMerge(stack, runs) == Top(stack).prevNodeIsText /\ runs # << >>

\* text node or BR, lines 534-553
AddFragment(tok, runs, stack, preserveSpaces) ==
  LET text == IF tok.kind = "br" THEN tok.text
              ELSE IF preserveSpaces THEN tok.text ELSE Collapse(tok.text)
  IN  IF ShouldMerge(stack, runs)
        THEN [runs EXCEPT ![Len(runs)].text = @ \o text]
        ELSE Append(runs, Run(text, Top(stack).options))

\* the preserveSpaces early return of line 541
SkippedFragment(tok, preserveSpaces) ==
  preserveSpaces /\ tok.kind = "text" /\ ~HasNewline(tok.text) /\ IsBlank(tok.text)

\* FontAwesome <i>, lines 583-601
AddIcon(tok, runs, stack) ==
  LET options == Spread(Top(stack).options, Options(FALSE, FALSE, TRUE))
  IN  IF Top(stack).prevNodeIsText /\ runs # << >>
        THEN [runs EXCEPT ![Len(runs)] = Run(@.text \o <<" ">> \o ICON, Spread(@.options, options))]
        ELSE Append(runs, Run(ICON, options))

\* options of a styled element, lines 556, 605-615
ElementOptions(base, tok) == Options(base.bold \/ tok.bold, base.italic \/ tok.italic, TRUE)

RECURSIVE ParseFrom(_, _, _, _, _)
\* childNodes.forEach from token i on; the recursion of line 638 is a pushed frame.
\* trimNested: whether an ending recursive invocation trims (the code does: NestedTrim)
ParseFrom(tokens, i, runs, stack, cfg) ==
  IF i > Len(tokens) THEN runs
  ELSE LET tok == tokens[i] IN
    CASE tok.kind \in {"text", "br"} ->
           IF SkippedFragment(tok, cfg.preserveSpaces)
             THEN ParseFrom(tokens, i + 1, runs, stack, cfg)
             ELSE ParseFrom(tokens, i + 1, AddFragment(tok, runs, stack, cfg.preserveSpaces),
                            SetPrev(stack, TRUE), cfg)
      [] tok.kind = "open" ->
           LET j == MatchingClose(tokens, i + 1, 0) IN
           IF ~ElementHasText(tokens, i) \/ tok.tag \notin StyledTags
             THEN ParseFrom(tokens, j + 1, runs, SetPrev(stack, FALSE), cfg)
           ELSE IF tok.icon
             THEN ParseFrom(tokens, j + 1, AddIcon(tok, runs, stack), SetPrev(stack, TRUE), cfg)
           ELSE ParseFrom(tokens, i + 1, runs,
                          Append(stack, Frame(ElementOptions(Top(stack).options, tok), FALSE)), cfg)
      [] OTHER ->
           ParseFrom(tokens, i + 1, IF cfg.trimNested THEN NestedTrim(runs) ELSE runs,
                     SetPrev(SubSeq(stack, 1, Len(stack) - 1), FALSE), cfg)

NonEmptyRun(r) == Len(r.text) > 0

\* the runs array as the outermost invocation leaves it
ParsedRuns(tokens, baseOptions, preserveSpaces) ==
  TrimEnds(ParseFrom(tokens, 1, << >>, << Frame(baseOptions, FALSE) >>,
                     [preserveSpaces |-> preserveSpaces, trimNested |-> TRUE]))

\* return runs.filter(r => r.text.length > 0)
parseInlineFormatting(tokens, baseOptions, preserveSpaces) ==
  SelectSeq(ParsedRuns(tokens, baseOptions, preserveSpaces), NonEmptyRun)

\* text ending in two spaces, text starting with a space, whitespace only
InlineTexts == { <<"a", " ", " ">>, <<" ", "a">>, <<" ">> }
\* <b>, a tag outside the styled list, <i class="fa-arrow-right">
InlineOpens == { OpenTok("B", TRUE, FALSE, FALSE), OpenTok("A", FALSE, FALSE, FALSE),
                 OpenTok("I", FALSE, TRUE, TRUE) }
InlineTokens == {TextTok(t) : t \in InlineTexts} \cup {BrTok, CloseTok} \cup InlineOpens

TokenDepth(tok) == IF tok.kind = "open" THEN 1 ELSE IF tok.kind = "close" THEN -1 ELSE 0
\* the HTML parser never leaves two text nodes next to each other
FitsAfter(p, tok) ==
  /\ p.depth + TokenDepth(tok) \in 0..MaxDepth
  /\ ~(tok.kind = "text" /\ p.toks # << >> /\ p.toks[Len(p.toks)].kind = "text")

RECURSIVE Markups(_)
\* well-nested token sequences of up to n tokens, with the number of open elements
Markups(n) ==
  IF n = 0 THEN { [toks |-> << >>, depth |-> 0] }
  ELSE LET shorter == Markups(n - 1)
           longest == { p \in shorter : Len(p.toks) = n - 1 }
       IN  shorter \cup
           { [toks |-> Append(pt[1].toks, pt[2]), depth |-> pt[1].depth + TokenDepth(pt[2])] :
               pt \in { q \in longest \X InlineTokens : FitsAfter(q[1], q[2]) } }

TextBlocks ==
  { [tokens |-> p.toks, preserveSpaces |-> ps] :
      p \in { q \in Markups(MaxTokens) : q.depth = 0 /\ q.toks # << >> }, ps \in BOOLEAN }

NoRunsOut == [runs |-> << >>, result |-> << >>]

InitRuns ==
  /\ Parked
  /\ evalIn \in TextBlocks
  /\ evalOut = NoRunsOut
  /\ evalPc = "parseInlineFormatting"

\* const runs = parseInlineFormatting(el, {}, [], transform, preserveSpaces)
E_ParseInline ==
  /\ evalPc = "parseInlineFormatting"
  /\ evalOut' = [runs |-> ParsedRuns(evalIn.tokens, NoOptions, evalIn.preserveSpaces),
                 result |-> parseInlineFormatting(evalIn.tokens, NoOptions, evalIn.preserveSpaces)]
  /\ evalPc' = "parsed"
  /\ UNCHANGED <<driverVars, localVars, pc, pres, cur, callNo, sessions, browser, pending, ret,
                 results, calls, evalIn>>

NextRuns == E_ParseInline

SpecRuns == InitRuns /\ [][NextRuns]_vars

\* ------------------------------------------------- page.evaluate: the walk over the DOM
MaxBare == 2         \* non-blank text nodes directly inside one element

textTags == {"P", "H1", "H2", "H3", "H4", "H5", "H6", "UL", "OL", "LI", "SPAN", "I", "PRE", "CODE"}
formattingTags == {"B", "I", "U", "STRONG", "EM", "SPAN", "BR"}

\* The elements of the document in the order of querySelectorAll('*'), each with the
\* position of its parent (0: body).  bare: the number of its child text nodes that are not
\* blank.  box: its layout box (offsetWidth, offsetHeight).  bg: it has a background colour.
\* decoration: "border" (some edge has a positive width), "shadow" (box-shadow is not
\* 'none') or "none".  No element has a background image or text that starts with a bullet
\* glyph.  spanProcessed: dataset.pptxSpanProcessed === 'true'.
Box2(w, h) == [w |-> w, h |-> h]
Node(tag, bare, box, transform, bg, placeholder) ==
  [tag |-> tag, parent |-> 0, bare |-> bare, box |-> box, transform |-> transform,
   bg |-> bg, placeholder |-> placeholder, decoration |-> "none", spanProcessed |-> FALSE]
Decorated(node, decoration) == [node EXCEPT !.decoration = decoration]
\* hasBg || hasBorder || hasShadow
HasBoxStyling(el) == el.bg \/ el.decoration # "none"

RECURSIVE IsAncestor(_, _, _)
IsAncestor(tree, i, j) ==
  j > i /\ (tree[j].parent = i \/ (tree[j].parent > i /\ IsAncestor(tree, i, tree[j].parent)))
Descendants(tree, i) == { j \in 1..Len(tree) : IsAncestor(tree, i, j) }
Children(tree, i) == { j \in 1..Len(tree) : tree[j].parent = i }
\* el.textContent.trim() is not empty
HasText(tree, i) == tree[i].bare > 0 \/ \E j \in Descendants(tree, i) : tree[j].bare > 0

\* getBoundingClientRect of a box turned about its centre: a quarter turn swaps the sides,
\* an eighth of a turn gives a square of (w + h) / sqrt(2), taken as 7/10
BoundingSide(box, transform, side) ==
  LET rotation == getRotation(transform, "horizontal-tb")
  IN  IF rotation.null THEN (IF side = "w" THEN box.w ELSE box.h)
      ELSE IF rotation.angle \in {QUARTER, THREE_QUARTERS} THEN (IF side = "w" THEN box.h ELSE box.w)
      ELSE IF rotation.angle = 2 * QUARTER THEN (IF side = "w" THEN box.w ELSE box.h)
      ELSE (7 * (box.w + box.h)) \div 10
NodeRect(el) ==
  Rect(40, 60, BoundingSide(el.box, el.transform, "w"), BoundingSide(el.box, el.transform, "h"))
EmptyRect(rect) == rect.width = 0 \/ rect.height = 0

\* An extracted element: where it came from, whose text it carries, where it is placed
DomElem(type, node, content, position) ==
  [type |-> type, node |-> node, content |-> content, position |-> position]
RectPosition(rect) == PosAndSize(2 * rect.left, 2 * rect.top, rect.width, rect.height)

RECURSIVE RunContent(_, _)
\* the nodes whose text parseInlineFormatting(el) puts into runs: el's own text nodes and,
\* through the recursion, those of styled descendants that have text
RunContent(tree, i) ==
  (IF tree[i].bare > 0 THEN {i} ELSE {})
    \cup UNION { RunContent(tree, c) :
                   c \in { k \in Children(tree, i) : tree[k].tag \in StyledTags /\ HasText(tree, k) } }
\* the nodes whose text el.textContent holds
PlainContent(tree, i) == { j \in {i} \cup Descendants(tree, i) : tree[j].bare > 0 }
\* el.querySelector('b, i, u, strong, em, span, br')
HasFormatting(tree, i) == \E j \in Descendants(tree, i) : tree[j].tag \in formattingTags
ListItems(tree, i) == { j \in Descendants(tree, i) : tree[j].tag = "LI" }
ListContent(tree, i) == UNION { RunContent(tree, li) : li \in ListItems(tree, i) }

NoWalk == [at |-> 1, processed |-> {}, elements |-> << >>, placeholders |-> << >>, errors |-> << >>]
AddError(out, f) == [out EXCEPT !.errors = Append(@, f)]
AddElement(out, e, done) == [out EXCEPT !.elements = Append(@, e), !.processed = @ \cup done]

RECURSIVE BareTextFindings(_, _)
\* one 'DIV element contains unwrapped text "<prefix>"' per non-blank child text node
BareTextFindings(i, n) ==
  IF n = 0 THEN << >>
  ELSE BareTextFindings(i, n - 1) \o << Finding("unwrapped-text", i, n, <<"DIV">>) >>

UnwrappedTextErrorsMutOnce(i, el) == BareTextFindings(i, IF el.bare > 0 THEN 1 ELSE 0)

\* for (const node of el.childNodes) ... errors.push(...)
UnwrappedTextErrors(i, el) == BareTextFindings(i, el.bare)

\* const isContainer = el.tagName === 'DIV' && !textTags.includes(el.tagName);
IsContainer(el) == el.tag = "DIV" /\ el.tag \notin textTags

\* The text branch, from the SPAN / CODE skip on
VisitText(tree, i, out) ==
  LET el == tree[i]
      rect == NodeRect(el)
      rotation == getRotation(el.transform, "horizontal-tb")
      pos == getPositionAndSize([offsetWidth |-> el.box.w, offsetHeight |-> el.box.h], rect, rotation)
  IN  IF el.tag \in {"SPAN", "CODE"} /\ el.parent > 0 /\ tree[el.parent].tag \in textTags
        THEN [out EXCEPT !.processed = @ \cup {i}]
      ELSE IF el.tag = "P" /\ el.spanProcessed
        THEN [out EXCEPT !.processed = @ \cup {i}]
      ELSE IF EmptyRect(rect) \/ ~HasText(tree, i) THEN out
      ELSE AddElement(out,
                      DomElem(el.tag, i,
                              IF HasFormatting(tree, i) THEN RunContent(tree, i)
                              ELSE PlainContent(tree, i), pos),
                      {i})

\* One call of the querySelectorAll('*').forEach callback
VisitElement(tree, i, out) ==
  LET el == tree[i]
      rect == NodeRect(el)
  IN  IF i \in out.processed THEN out
      ELSE IF el.tag \in textTags /\ HasBoxStyling(el)
        THEN (IF el.tag # "CODE" THEN AddError(out, Finding("styled-text-tag", i, 0, <<el.tag>>))
              ELSE out)
      ELSE IF el.placeholder
        THEN (IF EmptyRect(rect)
                THEN [AddError(out, Finding("empty-placeholder", i, 0, << >>))
                        EXCEPT !.processed = @ \cup {i}]
                ELSE [out EXCEPT !.placeholders = Append(@, DomElem("placeholder", i, {}, RectPosition(rect))),
                                 !.processed = @ \cup {i}])
      ELSE IF el.tag = "IMG" /\ ~EmptyRect(rect)
        THEN AddElement(out, DomElem("image", i, {}, RectPosition(rect)), {i})
      ELSE LET checked == IF IsContainer(el)
                            THEN [out EXCEPT !.errors = @ \o UnwrappedTextErrors(i, el)]
                            ELSE out
           IN  IF IsContainer(el) /\ (el.bg \/ el.decoration = "border") /\ ~EmptyRect(rect)
                 THEN AddElement(checked, DomElem("shape", i, {}, RectPosition(rect)), {i})
               ELSE IF el.tag \in {"UL", "OL"}
                 THEN (IF EmptyRect(rect) THEN checked
                       ELSE AddElement(checked,
                                       DomElem("list", i, ListContent(tree, i), RectPosition(rect)),
                                       ListItems(tree, i) \cup {i}))
               ELSE IF el.tag \notin textTags THEN checked
               ELSE VisitText(tree, i, checked)

\* Documents: body > container? > block > inline?, every element the only child of the
\* one before it
NormalBox == Box2(200, 40)
NarrowBox == Box2(0, 40)
Turns == {NoTransform, RotateFn(90 * DEG), RotateFn(45 * DEG)}
Containers ==
  { Node(tag, bare, box, NoTransform, bg, FALSE) :
      tag \in {"DIV", "SECTION"}, bare \in 0..MaxBare, box \in {NormalBox, NarrowBox}, bg \in BOOLEAN }
    \cup { Node("DIV", 1, box, NoTransform, FALSE, TRUE) : box \in {NormalBox, NarrowBox} }
Paragraphs ==
  { << Node("P", bare, box, t, FALSE, FALSE) >> :
      bare \in 0..1, box \in {NormalBox, NarrowBox}, t \in Turns }
    \cup { << Node("P", 1, NormalBox, NoTransform, TRUE, FALSE) >> }
    \cup { << Node(tag, 1, NormalBox, NoTransform, bg, FALSE) >> :
             tag \in {"H1", "PRE", "CODE"}, bg \in BOOLEAN }
    \cup { << Decorated(Node(tag, 1, NormalBox, NoTransform, FALSE, FALSE), d) >> :
             tag \in {"P", "PRE", "CODE"}, d \in {"border", "shadow"} }
Images == { << Node("IMG", 0, box, NoTransform, FALSE, FALSE) >> : box \in {NormalBox, NarrowBox} }
ListItem == Node("LI", 1, NormalBox, NoTransform, FALSE, FALSE)
Lists ==
  { << Node("UL", 0, box, NoTransform, FALSE, FALSE), ListItem >> : box \in {NormalBox, NarrowBox} }
    \cup { << Node("UL", 0, NormalBox, NoTransform, FALSE, FALSE), ListItem,
              Node("UL", 0, NormalBox, NoTransform, FALSE, FALSE), ListItem >> }
    \cup { << Node("UL", 0, NormalBox, NoTransform, TRUE, FALSE), ListItem >>,
           << Node("UL", 0, NormalBox, NoTransform, FALSE, FALSE),
              Node("LI", 1, NormalBox, NoTransform, TRUE, FALSE) >> }
Inlines == { << Node(tag, 1, NormalBox, NoTransform, FALSE, FALSE) >> : tag \in {"I", "SPAN", "B"} }

\* every element becomes the child of the element before it
Chain(nodes) == [k \in 1..Len(nodes) |-> [nodes[k] EXCEPT !.parent = k - 1]]
DomTrees ==
  { Chain(c \o b \o n) :
      c \in { << >> } \cup { << x >> : x \in Containers },
      b \in Paragraphs \cup Lists,
      n \in { << >> } \cup Inlines }
    \cup { Chain(c \o b) : c \in { << >> } \cup { << x >> : x \in Containers }, b \in Images }

InitDom ==
  /\ Parked
  /\ evalIn \in DomTrees
  /\ evalOut = NoWalk
  /\ evalPc = "walk"

\* document.querySelectorAll('*').forEach((el) => { ... })
E_VisitElement ==
  /\ evalPc = "walk" /\ evalOut.at <= Len(evalIn)
  /\ evalOut' = [VisitElement(evalIn, evalOut.at, evalOut) EXCEPT !.at = evalOut.at + 1]
  /\ UNCHANGED <<driverVars, localVars, pc, pres, cur, callNo, sessions, browser, pending, ret,
                 results, calls, evalIn, evalPc>>

\* return { background, elements, placeholders, errors };
E_ReturnSlideData ==
  /\ evalPc = "walk" /\ evalOut.at > Len(evalIn)
  /\ evalPc' = "returned"
  /\ UNCHANGED <<driverVars, localVars, pc, pres, cur, callNo, sessions, browser, pending, ret,
                 results, calls, evalIn, evalOut>>

NextDom == E_VisitElement \/ E_ReturnSlideData

SpecDom == InitDom /\ [][NextDom]_vars

\* ------------------------------------------------- page.evaluate: colours, shapes and borders
\* Alpha and opacity are thousandths (0.5 is 500); transparencies are whole percents.
ALPHA_ONE == 1000
\* Coordinates of shapes and lines are twips (1/1440 in): pxToInch(1) is 15 twips, and half of
\* pxToPoints(1) = 0.7pt is 7 twips.
TWIPS_PER_PX == 15
HALF_PX_STROKE_TWIPS == 7

\* A computed colour: hex digits and alpha; the browser serialises alpha 1 as 'rgb(r, g, b)'
\* and anything less as 'rgba(r, g, b, a)'
Color(hex, alpha) == [hex |-> hex, alpha |-> alpha]
IsRgbaForm(c) == c.alpha < ALPHA_ONE
\* 'rgba(0, 0, 0, 0)'
TRANSPARENT == Color("000000", 0)

NullNumber == [null |-> TRUE, v |-> 0]
Number(n) == [null |-> FALSE, v |-> n]

\* Math.round((1 - x) * 100) for x in thousandths: halves round up
RoundedComplementPercent(x) == (ALPHA_ONE - x + 5) \div 10

\* /rgba\((\d+),\s*(\d+),\s*(\d+),\s*([\d.]+)\)/ does not match 'rgb(r, g, b)'; match[4] is
\* a non-empty string whenever the regex matches
extractAlpha(rgbStr) ==
  IF ~IsRgbaForm(rgbStr) THEN NullNumber
  ELSE Number(RoundedComplementPercent(rgbStr.alpha))

\* getComputedRGBColor: '' and 'transparent' become 'rgba(0, 0, 0, 0)', a string that starts
\* with 'rgb' is returned as it is; computed styles are always in one of these forms
getComputedRGBColor(color) == color

\* parseFloat(computed.opacity) || 1
ElementOpacity(opacity) == IF opacity = 0 THEN ALPHA_ONE ELSE opacity

\* the transparency closure of shape.fill: colorAlpha is what extractAlpha returned, a
\* percentage, and Math.round((1 - colorAlpha) * 100) is applied to it
ShapeTransparency(backgroundColor, opacity) ==
  LET colorAlpha == extractAlpha(getComputedRGBColor(backgroundColor))
      elementOpacity == ElementOpacity(opacity)
  IN IF ~colorAlpha.null /\ colorAlpha.v # 0 THEN Number((1 - colorAlpha.v) * 100)
     ELSE IF elementOpacity < ALPHA_ONE THEN Number(RoundedComplementPercent(elementOpacity))
     ELSE NullNumber

\* borders = [top, right, bottom, left] widths in px
Edges == <<"top", "right", "bottom", "left">>
HasBorder(borders) == \E k \in 1..4 : borders[k] > 0
HasUniformBorderMutAnyBorder(borders) == HasBorder(borders)
HasUniformBorder(borders) == HasBorder(borders) /\ \A k \in 1..4 : borders[k] = borders[1]

Line(edge, x1, y1, x2, y2, widthPx) ==
  [type |-> "line", edge |-> edge, x1 |-> x1, y1 |-> y1, x2 |-> x2, y2 |-> y2, width |-> widthPx]

\* one line per edge of positive width, inset by half the stroke width
BorderLine(edge, rect, widthPx) ==
  LET x == TWIPS_PER_PX * rect.left
      y == TWIPS_PER_PX * rect.top
      w == TWIPS_PER_PX * rect.width
      h == TWIPS_PER_PX * rect.height
      inset == HALF_PX_STROKE_TWIPS * widthPx
  IN CASE edge = "top"    -> Line(edge, x, y + inset, x + w, y + inset, widthPx)
       [] edge = "right"  -> Line(edge, x + w - inset, y, x + w - inset, y + h, widthPx)
       [] edge = "bottom" -> Line(edge, x, y + h - inset, x + w, y + h - inset, widthPx)
       [] edge = "left"   -> Line(edge, x + inset, y, x + inset, y + h, widthPx)

RECURSIVE BorderLinesFrom(_, _, _)
BorderLinesFrom(k, rect, borders) ==
  IF k > 4 THEN << >>
  ELSE (IF borders[k] > 0 THEN << BorderLine(Edges[k], rect, borders[k]) >> ELSE << >>)
         \o BorderLinesFrom(k + 1, rect, borders)

BorderLines(rect, borders) ==
  IF HasBorder(borders) /\ ~HasUniformBorder(borders) THEN BorderLinesFrom(1, rect, borders)
  ELSE << >>

Shape(rect, fill, transparency, line) ==
  [type |-> "shape", text |-> << >>,
   x |-> TWIPS_PER_PX * rect.left, y |-> TWIPS_PER_PX * rect.top,
   w |-> TWIPS_PER_PX * rect.width, h |-> TWIPS_PER_PX * rect.height,
   fill |-> fill, transparency |-> transparency, line |-> line]

\* the DIV branch from the border check on, for a DIV without a background image:
\* what it pushes onto elements; a null fill is "", rgbToHex gives the hex digits
ContainerElements(el) ==
  LET hasBg == el.backgroundColor # TRANSPARENT
      hasBorder == HasBorder(el.borders)
      hasUniformBorder == HasUniformBorder(el.borders)
  IN IF (hasBg \/ hasBorder) /\ el.rect.width > 0 /\ el.rect.height > 0
     THEN (IF hasBg \/ hasUniformBorder
           THEN << Shape(el.rect,
                         IF hasBg THEN el.backgroundColor.hex ELSE "",
                         IF hasBg THEN ShapeTransparency(el.backgroundColor, el.opacity)
                                  ELSE NullNumber,
                         IF hasUniformBorder THEN Number(el.borders[1]) ELSE NullNumber) >>
           ELSE << >>)
          \o BorderLines(el.rect, el.borders)
     ELSE << >>

\* style.transparency of a text element: extractAlpha(computed.color)
TextTransparency(el) == extractAlpha(el.color)

MaxAlphaSteps == 8   \* alpha and opacity take the values k/MaxAlphaSteps
MaxBorder == 2       \* border widths range over 0 .. MaxBorder px

Alphas == {(k * ALPHA_ONE) \div MaxAlphaSteps : k \in 0..MaxAlphaSteps}
Colors == {Color(hex, a) : hex \in {"000000", "FF0000"}, a \in Alphas}
BorderWidths == [1..4 -> 0..MaxBorder]
ShapeRects == {Rect(30, 20, 200, 100), Rect(30, 20, 0, 100)}

StyledDiv(backgroundColor, opacity, borders, rect) ==
  [tag |-> "DIV", backgroundColor |-> backgroundColor, opacity |-> opacity,
   borders |-> borders, rect |-> rect, color |-> Color("000000", ALPHA_ONE)]
StyledText(color) ==
  [tag |-> "P", backgroundColor |-> TRANSPARENT, opacity |-> ALPHA_ONE,
   borders |-> [k \in 1..4 |-> 0], rect |-> Rect(30, 20, 200, 100), color |-> color]

StyledNodes ==
  {StyledDiv(c, o, b, r) : c \in Colors, o \in {0, 400, ALPHA_ONE}, b \in BorderWidths,
                           r \in ShapeRects}
    \cup {StyledText(c) : c \in Colors}

NoShapeOut == [elements |-> << >>, transparency |-> NullNumber]

InitShape ==
  /\ Parked
  /\ evalIn \in StyledNodes
  /\ evalOut = NoShapeOut
  /\ evalPc = "visit"

\* the walk reaches a DIV with background or border
E_VisitContainer ==
  /\ evalPc = "visit"
  /\ evalIn.tag = "DIV"
  /\ evalOut' = [evalOut EXCEPT !.elements = ContainerElements(evalIn)]
  /\ evalPc' = "visited"
  /\ UNCHANGED <<driverVars, localVars, pc, pres, cur, callNo, sessions, browser, pending, ret,
                 results, calls, evalIn>>

\* the walk reaches a text element: its style is read
E_VisitStyledText ==
  /\ evalPc = "visit"
  /\ evalIn.tag = "P"
  /\ evalOut' = [evalOut EXCEPT !.transparency = TextTransparency(evalIn)]
  /\ evalPc' = "visited"
  /\ UNCHANGED <<driverVars, localVars, pc, pres, cur, callNo, sessions, browser, pending, ret,
                 results, calls, evalIn>>

NextShape == E_VisitContainer \/ E_VisitStyledText

SpecShape == InitShape /\ [][NextShape]_vars

\* ------------------------------------------------- validation of sizes and bottom margins
MaxEls == 2          \* elements of one slideData

\* body and container boxes around the 16:9 page (960 x 540 px) and one inch (96 px) off it
SizedBodies == {Body(w, h, h) : w \in {960, 1056, 1057, 1200}, h \in {540, 636, 637, 443}}
SizedContainers ==
  {NoQuery} \cup {QueryAt(1, Box(w, h)) : w \in {863, 864, 960, 1056, 1100},
                                          h \in {443, 444, 540, 637, 700}}
\* element types that extraction emits for text, lists, and others
EmittedTypes == {"p", "h2", "list", "li", "pre", "code", "image"}
\* font sizes around 12pt (tenths of a point); bottoms 0.5in (48 px) and 47 px above 540
MarginEls == {Elem(t, Pos(40, 400, 400, b - 400), f, <<1, 2>>, << >>, << >>, FALSE) :
                t \in EmittedTypes, f \in {120, 121}, b \in {492, 493}}
MarginSlideDatas ==
  UNION {{SlideData(ColorBg, els, << >>, << >>) : els \in [1..n -> MarginEls]} : n \in 0..MaxEls}
Layouts == {[hasLayout |-> TRUE, layoutW |-> LAYOUT_16x9_W, layoutH |-> LAYOUT_16x9_H, slides |-> << >>],
            [hasLayout |-> FALSE, layoutW |-> 0, layoutH |-> 0, slides |-> << >>]}

ValidationInputs ==
  {[doc |-> Doc("none", b, q, SDEmpty), pres |-> p] :
      b \in SizedBodies, q \in SizedContainers, p \in Layouts}
    \cup {[doc |-> Doc("none", Body(960, 540, 540), NoQuery, sd), pres |-> Layouts1] :
            sd \in MarginSlideDatas, Layouts1 \in Layouts}

NoValidation == [bodyDimensions |-> getBodyDimensions(Doc("none", Body(0, 0, 0), NoQuery, SDEmpty)),
                 dimensionErrors |-> << >>, textBoxPositionErrors |-> << >>]

InitValidate ==
  /\ Parked
  /\ evalIn \in ValidationInputs
  /\ evalOut = NoValidation
  /\ evalPc = "getBodyDimensions"

\* const bodyDimensions = await getBodyDimensions(page);
E_GetBodyDimensions ==
  /\ evalPc = "getBodyDimensions"
  /\ evalOut' = [evalOut EXCEPT !.bodyDimensions = getBodyDimensions(evalIn.doc)]
  /\ evalPc' = "validateDimensions"
  /\ UNCHANGED <<driverVars, localVars, pc, pres, cur, callNo, sessions, browser, pending, ret,
                 results, calls, evalIn>>

\* const dimensionErrors = validateDimensions(bodyDimensions, pres);
E_ValidateDimensions ==
  /\ evalPc = "validateDimensions"
  /\ evalOut' = [evalOut EXCEPT
                   !.dimensionErrors = validateDimensions(evalOut.bodyDimensions, evalIn.pres)]
  /\ evalPc' = "validateTextBoxPosition"
  /\ UNCHANGED <<driverVars, localVars, pc, pres, cur, callNo, sessions, browser, pending, ret,
                 results, calls, evalIn>>

\* const textBoxPositionErrors = validateTextBoxPosition(slideData, bodyDimensions);
E_ValidateTextBoxPosition ==
  /\ evalPc = "validateTextBoxPosition"
  /\ evalOut' = [evalOut EXCEPT
                   !.textBoxPositionErrors =
                      validateTextBoxPosition(evalIn.doc.slideData, evalOut.bodyDimensions)]
  /\ evalPc' = "validated"
  /\ UNCHANGED <<driverVars, localVars, pc, pres, cur, callNo, sessions, browser, pending, ret,
                 results, calls, evalIn>>

NextValidate == E_GetBodyDimensions \/ E_ValidateDimensions \/ E_ValidateTextBoxPosition

SpecValidate == InitValidate /\ [][NextValidate]_vars

\* ------------------------------------------------- page.evaluate: the text of a table cell
\* cell.querySelector('span, b, strong, i, em, u')
HasInlineFormatting(tokens) ==
  \E k \in 1..Len(tokens) :
    tokens[k].kind = "open" /\ tokens[k].tag \in {"SPAN", "B", "STRONG", "I", "EM", "U"}

RECURSIVE TextContent(_, _)
\* cell.textContent: the text nodes in document order
TextContent(tokens, i) ==
  IF i > Len(tokens) THEN << >>
  ELSE (IF tokens[i].kind = "text" THEN tokens[i].text ELSE << >>) \o TextContent(tokens, i + 1)
TrimmedText(tokens) == TrimEnd(TrimStart(TextContent(tokens, 1)))

\* Object.keys(r.options): the keys of the cell's base options and those set on the way
CellBaseKeys == {"fontSize", "fontFace", "color"}
OptionKeys(options) ==
  CellBaseKeys \cup (IF options.bold THEN {"bold"} ELSE {})
               \cup (IF options.italic THEN {"italic"} ELSE {})
\* runs.some(r => r.options && Object.keys(r.options).some(k => k !== 'fontSize' && k !== 'fontFace'))
HasStyledRunMutNeverStyled(runs) == FALSE
HasStyledRun(runs) ==
  \E k \in 1..Len(runs) : OptionKeys(runs[k].options) \ {"fontSize", "fontFace"} # {}

RunsText(runs) == [kind |-> "runs", runs |-> runs, text |-> << >>]
StringText(text) == [kind |-> "string", runs |-> << >>, text |-> text]
\* reading td, which no scope of the cell callback declares
ReferenceError == [kind |-> "ReferenceError", runs |-> << >>, text |-> << >>]

\* cellText of one data cell
CellText(tokens) ==
  IF HasInlineFormatting(tokens)
    THEN LET runs == parseInlineFormatting(tokens, Options(FALSE, FALSE, TRUE), FALSE)
         IN  IF runs # << >> /\ HasStyledRun(runs) THEN RunsText(runs) ELSE ReferenceError
    ELSE StringText(TrimmedText(tokens))

CellMarkups == { p.toks : p \in { q \in Markups(MaxTokens) : q.depth = 0 } }
NoCellOut == StringText(<< >>)

InitCell ==
  /\ Parked
  /\ evalIn \in CellMarkups
  /\ evalOut = NoCellOut
  /\ evalPc = "cell"

\* one call of the cells.map callback that returns
E_ExtractCell ==
  /\ evalPc = "cell"
  /\ CellText(evalIn).kind # "ReferenceError"
  /\ evalOut' = CellText(evalIn)
  /\ evalPc' = "extracted"
  /\ UNCHANGED <<driverVars, localVars, pc, pres, cur, callNo, sessions, browser, pending, ret,
                 results, calls, evalIn>>

\* one call of the cells.map callback that throws: page.evaluate rejects
E_CellThrows ==
  /\ evalPc = "cell"
  /\ CellText(evalIn).kind = "ReferenceError"
  /\ evalOut' = CellText(evalIn)
  /\ evalPc' = "thrown"
  /\ UNCHANGED <<driverVars, localVars, pc, pres, cur, callNo, sessions, browser, pending, ret,
                 results, calls, evalIn>>

NextCell == E_ExtractCell \/ E_CellThrows

SpecCell == InitCell /\ [][NextCell]_vars

\* ------------------------------------------------- page.evaluate: styled spans become DIV + P
\* span.parentNode.replaceChild(div, span): the span and everything inside it leave the
\* document; in their place stand the DIV, which takes the span's box styling, and inside it
\* the P, which takes span.textContent
RewriteSpan(tree, i) ==
  LET n == Cardinality(Descendants(tree, i))
      div == [tree[i] EXCEPT !.tag = "DIV", !.bare = 0, !.transform = NoTransform,
                             !.placeholder = FALSE, !.spanProcessed = TRUE]
      p == [tree[i] EXCEPT !.tag = "P", !.parent = i, !.bare = IF HasText(tree, i) THEN 1 ELSE 0,
                           !.transform = NoTransform, !.bg = FALSE, !.decoration = "none",
                           !.placeholder = FALSE, !.spanProcessed = TRUE]
      Moved(j) == [tree[j] EXCEPT !.parent = IF @ > i THEN @ - n + 1 ELSE @]
  IN SubSeq(tree, 1, i - 1) \o << div, p >>
       \o [k \in 1..(Len(tree) - i - n) |-> Moved(i + n + k)]

\* the span is rewritten: it is not the child of a table cell and has hasBg || hasBorder || hasShadow
IsRewritten(tree, i) ==
  /\ tree[i].tag = "SPAN"
  /\ ~(tree[i].parent > 0 /\ tree[tree[i].parent].tag \in {"TD", "TH"})
  /\ HasBoxStyling(tree[i])

RECURSIVE PreprocessSpansFrom(_, _)
\* document.querySelectorAll('span').forEach: a span inside a rewritten span is gone from the
\* document when its turn comes
PreprocessSpansFrom(tree, i) ==
  IF i > Len(tree) THEN tree
  ELSE IF IsRewritten(tree, i) THEN PreprocessSpansFrom(RewriteSpan(tree, i), i + 2)
  ELSE PreprocessSpansFrom(tree, i + 1)
PreprocessSpans(tree) == PreprocessSpansFrom(tree, 1)

\* spans: with or without a box, with each kind of box styling or none
Spans ==
  { Decorated(Node("SPAN", 1, box, NoTransform, bg, FALSE), d) :
      box \in {NormalBox, NarrowBox}, bg \in BOOLEAN, d \in {"none", "border", "shadow"} }
SpanHosts ==
  { << >>,
    << Node("DIV", 0, NormalBox, NoTransform, FALSE, FALSE) >>,
    << Node("DIV", 0, NormalBox, NoTransform, TRUE, FALSE) >>,
    << Node("P", 1, NormalBox, NoTransform, FALSE, FALSE) >>,
    << Node("P", 0, NormalBox, NoTransform, FALSE, FALSE) >>,
    Chain(<< Node("DIV", 0, NormalBox, NoTransform, TRUE, FALSE),
             Node("H1", 1, NormalBox, NoTransform, FALSE, FALSE) >>),
    Chain(<< Node("UL", 0, NormalBox, NoTransform, FALSE, FALSE), ListItem >>) }
\* <p><b>x</b><span>y</span></p>: the span has a sibling that is formatted
SiblingTrees ==
  { << Node("P", 0, NormalBox, NoTransform, FALSE, FALSE),
       [Node("B", 1, NormalBox, NoTransform, FALSE, FALSE) EXCEPT !.parent = 1],
       [s EXCEPT !.parent = 1] >> : s \in Spans }
\* a span inside the span, and an element after it
NestedTrees ==
  { Chain(h \o << s, Node("SPAN", 1, NormalBox, NoTransform, TRUE, FALSE) >>)
      \o << Node("P", 1, NormalBox, NoTransform, FALSE, FALSE) >> :
      h \in SpanHosts, s \in Spans }
SpanTrees == { Chain(h \o << s >>) : h \in SpanHosts, s \in Spans } \cup SiblingTrees \cup NestedTrees

NoSpanWalk == [tree |-> << >>, at |-> 1, processed |-> {}, elements |-> << >>,
               placeholders |-> << >>, errors |-> << >>]

InitSpan ==
  /\ Parked
  /\ evalIn \in SpanTrees
  /\ evalOut = NoSpanWalk
  /\ evalPc = "preprocess"

\* document.querySelectorAll('span').forEach((span) => { ... })
E_PreprocessSpans ==
  /\ evalPc = "preprocess"
  /\ evalOut' = [evalOut EXCEPT !.tree = PreprocessSpans(evalIn)]
  /\ evalPc' = "walk"
  /\ UNCHANGED <<driverVars, localVars, pc, pres, cur, callNo, sessions, browser, pending, ret,
                 results, calls, evalIn>>

\* document.querySelectorAll('*').forEach((el) => { ... }) over the rewritten document
E_VisitRewritten ==
  /\ evalPc = "walk" /\ Len(evalOut.tree) > 0 /\ evalOut.at <= Len(evalOut.tree)
  /\ evalOut' = [VisitElement(evalOut.tree, evalOut.at, evalOut) EXCEPT !.at = evalOut.at + 1]
  /\ UNCHANGED <<driverVars, localVars, pc, pres, cur, callNo, sessions, browser, pending, ret,
                 results, calls, evalIn, evalPc>>

\* return { background, elements, placeholders, errors };
E_ReturnRewritten ==
  /\ evalPc = "walk" /\ Len(evalOut.tree) > 0 /\ evalOut.at > Len(evalOut.tree)
  /\ evalPc' = "returned"
  /\ UNCHANGED <<driverVars, localVars, pc, pres, cur, callNo, sessions, browser, pending, ret,
                 results, calls, evalIn, evalOut>>

NextSpan == E_PreprocessSpans \/ E_VisitRewritten \/ E_ReturnRewritten

SpecSpan == InitSpan /\ [][NextSpan]_vars

\* ------------------------------------------------- the slide container, measured and as origin
\* what querySelector finds for a selector, with the corner of its getBoundingClientRect
PlacedBox(w, h, left, top) ==
  [present |-> TRUE, styleW |-> w, styleH |-> h, offsetW |-> w, offsetH |-> h,
   left |-> left, top |-> top]
Absent == [present |-> FALSE, styleW |-> 0, styleH |-> 0, offsetW |-> 0, offsetH |-> 0,
           left |-> 0, top |-> 0]

RECURSIVE ContainerOffsetFrom(_, _)
\* extractSlideData: the first selector that matches anything gives the offset
ContainerOffsetFrom(doc, i) ==
  IF i > Len(containerSelectors) THEN [x |-> 0, y |-> 0]
  ELSE IF doc.query[i].present THEN [x |-> doc.query[i].left, y |-> doc.query[i].top]
  ELSE ContainerOffsetFrom(doc, i + 1)
ContainerOffset(doc) == ContainerOffsetFrom(doc, 1)

\* adjustRect: Math.max(0, rect.left - containerOffset.x), ...
adjustRect(rect, containerOffset) ==
  Rect(Max(0, rect.left - containerOffset.x), Max(0, rect.top - containerOffset.y),
       rect.width, rect.height)

\* candidates for a selector: nothing, a centred container, one as wide as the body that
\* starts lower, one without a box
Candidates == {Absent, PlacedBox(800, 450, 80, 45), PlacedBox(960, 500, 0, 40),
               PlacedBox(0, 0, 10, 10)}
\* what matches '.slide-container' also matches '[class*="slide-container"]'
PlacedQueries ==
  { q \in [1..Len(containerSelectors) -> Candidates] : q[1].present => q[2].present }
ElementRects == {Rect(100, 120, 300, 40), Rect(20, 30, 300, 40)}
PlacedDocs ==
  { [doc |-> Doc("none", Body(960, 540, 540), q, SDEmpty), rect |-> r] :
      q \in PlacedQueries, r \in ElementRects }

NoOrigin == [bodyDimensions |-> NoDims, containerOffset |-> [x |-> 0, y |-> 0],
             rect |-> Rect(0, 0, 0, 0)]

InitOrigin ==
  /\ Parked
  /\ evalIn \in PlacedDocs
  /\ evalOut = NoOrigin
  /\ evalPc = "measure"

\* bodyDimensions = await getBodyDimensions(page)
E_MeasureContainer ==
  /\ evalPc = "measure"
  /\ evalOut' = [evalOut EXCEPT !.bodyDimensions = getBodyDimensions(evalIn.doc)]
  /\ evalPc' = "offset"
  /\ UNCHANGED <<driverVars, localVars, pc, pres, cur, callNo, sessions, browser, pending, ret,
                 results, calls, evalIn>>

\* extractSlideData: the loop that sets containerOffset
E_FindContainerOffset ==
  /\ evalPc = "offset"
  /\ evalOut' = [evalOut EXCEPT !.containerOffset = ContainerOffset(evalIn.doc)]
  /\ evalPc' = "adjust"
  /\ UNCHANGED <<driverVars, localVars, pc, pres, cur, callNo, sessions, browser, pending, ret,
                 results, calls, evalIn>>

\* const rect = adjustRect(el.getBoundingClientRect())
E_AdjustRect ==
  /\ evalPc = "adjust"
  /\ evalOut' = [evalOut EXCEPT !.rect = adjustRect(evalIn.rect, evalOut.containerOffset)]
  /\ evalPc' = "placed"
  /\ UNCHANGED <<driverVars, localVars, pc, pres, cur, callNo, sessions, browser, pending, ret,
                 results, calls, evalIn>>

NextOrigin == E_MeasureContainer \/ E_FindContainerOffset \/ E_AdjustRect

SpecOrigin == InitOrigin /\ [][NextOrigin]_vars

\* ------------------------------------------------- properties
CallsOf(c) == {k \in 1..Len(calls) : calls[k].call = c}
SlidesOf(c) == {k \in 1..Len(pres.slides) : pres.slides[k].call = c}
Decided == browser.launched /\ pc \in {"h_decide", "h_catch", "h_background", "h_elements"}

\* C1: when the aggregated validation list of a document is non-empty,
\* html2pptx throws and no deck primitive is invoked for that document.
C1_InvalidNeverEmitted ==
  /\ \A i \in 1..Len(results) :
       results[i].errors # << >> =>
         /\ results[i].status = "err"
         /\ CallsOf(results[i].call) = {}
         /\ SlidesOf(results[i].call) = {}
  /\ (Decided /\ validationErrors # << >>) =>
       /\ pc \in {"h_decide", "h_catch"}
       /\ CallsOf(callNo) = {}

C1_Witness ==
  \E i \in 1..Len(results) :
    /\ ~results[i].checkMode /\ results[i].errors # << >> /\ results[i].status = "err"
    /\ Len(results[i].msg.items) = Len(results[i].errors)

\* C2: in check mode html2pptx never mutates the deck (no addSlide, no add*
\* primitive, no background), whether validation succeeds or fails, and on
\* success returns slide = null with the extracted placeholders.
C2_CheckModeLeavesDeck ==
  checkMode =>
    /\ pres = NewDeck
    /\ calls = << >>
    /\ (pc = "ret" /\ ret.status = "ok") =>
         /\ ret.slide = 0
         /\ ret.checkMode
         /\ ret.placeholders = cur.doc.slideData.placeholders

C2_Witness ==
  /\ checkMode /\ pc = "ret" /\ ret.status = "ok" /\ ret.placeholders # << >>
  /\ cur.doc.slideData.elements # << >>

\* C3: a launched browser session is closed exactly once before html2pptx
\* returns or throws, on every exit path, so no session is open when the
\* next document starts.
C3_SessionClosedOnce ==
  /\ browser.closes <= 1
  /\ \A i \in 1..Len(results) :
       results[i].closes = (IF results[i].launched THEN 1 ELSE 0)
  /\ pc \in {"cli", "lib", "loop", "ret", "exit", "h_launch"} => sessions = {}
  /\ Cardinality(sessions) <= 1

C3_Witness ==
  /\ Len(results) >= 1
  /\ results[1].launched /\ results[1].status = "err"
  /\ results[1].doc.fault \in {"newPage", "goto", "dims", "viewport", "extract"}
  /\ callNo = 2 /\ pc = "h_newPage" /\ sessions = {2}

\* C4 (as claimed): in normal mode, when html2pptx has finished for a
\* document, the deck holds either a slide with the background and every
\* extracted element of that document, or nothing from that document.
C4_AllOrNothing ==
  (pc = "ret" /\ ~checkMode) =>
    \/ SlidesOf(callNo) = {}
    \/ \E k \in SlidesOf(callNo) :
         /\ Len(pres.slides[k].objects) = Len(cur.doc.slideData.elements)
         /\ pres.slides[k].background = BackgroundOf(cur.doc.slideData)

\* how html2pptx ends for a document processed on its own
RECURSIVE FirstRejected(_, _)
FirstRejected(els, i) ==
  IF i > Len(els) THEN 0 ELSE IF els[i].rejected THEN i ELSE FirstRejected(els, i + 1)

AloneOutcome(file, doc, cm) ==
  LET errs == CollectValidationErrors(getBodyDimensions(doc), doc.slideData, NewDeck)
      rej == FirstRejected(doc.slideData.elements, 1)
  IN IF doc.fault # "none"
     THEN [status |-> "err", msg |-> WrapError(FaultMessage(doc.fault), file)]
     ELSE IF errs # << >>
     THEN [status |-> "err", msg |-> WrapError(ErrorMessage(errs), file)]
     ELSE IF ~cm /\ rej # 0
     THEN [status |-> "err",
           msg |-> WrapError(FaultMessage(PrimitiveOf(doc.slideData.elements[rej])), file)]
     ELSE [status |-> "ok", msg |-> NoMsg]

OutcomeAt(i) == [status |-> results[i].status, msg |-> results[i].msg]
SameAsAlone(i) == OutcomeAt(i) = AloneOutcome(results[i].file, results[i].doc, results[i].checkMode)

\* C5 (as claimed): in a batch run, generate or check mode, every collected
\* document is processed and gets the outcome it gets alone, also after a
\* sibling failed.
C5_SiblingsUnaffected ==
  (BatchMode /\ pc = "exit" /\ slides # << >>) =>
    /\ Len(results) = Len(slides)
    /\ \A i \in 1..Len(results) : results[i].file = slides[i].file /\ SameAsAlone(i)

\* C5 (amended): every processed document gets the outcome it gets alone;
\* a check-mode batch processes every collected document whatever failed
\* before; a generate-mode batch stops at its first failing document.
C5_SiblingsUnaffectedInCheckMode ==
  /\ \A i \in 1..Len(results) : SameAsAlone(i)
  /\ BatchMode => \A i \in 1..Len(results) :
                    i <= Len(slides) /\ results[i].file = slides[i].file
                                     /\ results[i].doc = slides[i].doc
  /\ (mode = "check" /\ pc = "exit" /\ slides # << >>) => Len(results) = Len(slides)
  /\ (mode = "generate" /\ pc = "exit" /\ slides # << >>) =>
       /\ \A i \in 1..(Len(results) - 1) : results[i].status = "ok"
       /\ Len(results) < Len(slides) => results[Len(results)].status = "err"

C5_Witness ==
  /\ mode = "check" /\ pc = "exit" /\ Len(slides) = 2 /\ Len(results) = 2
  /\ results[1].status = "err" /\ results[2].status = "ok"

\* C6: generatePPTX calls pptx.writeFile at most once, only in generate mode,
\* and only after html2pptx succeeded for every collected slide; never in
\* check mode, never when a slide failed.
C6_WriteOnlyAfterAllSucceeded ==
  /\ writes <= 1
  /\ checkMode => writes = 0
  /\ (\E i \in 1..Len(results) : results[i].status = "err") => writes = 0
  /\ writes = 1 =>
       /\ mode = "generate"
       /\ slides # << >>
       /\ Len(results) = Len(slides)
       /\ \A i \in 1..Len(slides) : results[i].file = slides[i].file /\ results[i].status = "ok"

C6_Witness ==
  /\ writes = 1 /\ Len(slides) = 2 /\ Len(pres.slides) = 2 /\ pc = "exit"

\* page number of a file of the listing
PageNumOfFile(f) ==
  LET k == CHOOSE n \in 1..Len(listing) : listing[n].name.stem = f
  IN ParseInt(listing[k].name.digits)


\* C7: slides are appended to the deck in ascending page-number order of
\* their file names, whatever order the directory listing has, and a slide
\* is appended only after that document's validation succeeded.
C7_AscendingPageOrder ==
  BatchMode =>
    /\ \A a, b \in 1..Len(pres.slides) :
         a < b => PageNumOfFile(pres.slides[a].file) <= PageNumOfFile(pres.slides[b].file)
    /\ \A a, b \in 1..Len(results) :
         (a < b /\ PageNumOfFile(results[a].file) # PageNumOfFile(results[b].file))
           => PageNumOfFile(results[a].file) < PageNumOfFile(results[b].file)
    /\ \A k \in 1..Len(pres.slides) :
         /\ MatchesPattern(listing[CHOOSE n \in 1..Len(listing) :
                                     listing[n].name.stem = pres.slides[k].file].name)
         /\ IF pres.slides[k].call <= Len(results)
            THEN results[pres.slides[k].call].errors = << >>
            ELSE Decided /\ validationErrors = << >>

C7_Witness ==
  /\ mode = "generate" /\ Len(listing) = 2 /\ Len(pres.slides) = 2
  /\ ParseInt(listing[1].name.digits) > ParseInt(listing[2].name.digits)
  /\ pres.slides[1].file = listing[2].name.stem
  /\ pres.slides[2].file = listing[1].name.stem

\* C8: checking the same malformed document twice in check mode raises the
\* identical ordered error list both times, carries no state from the first
\* run to the second, and mutates no deck object.
C8_CheckTwiceIdempotent ==
  (mode = "lib" /\ checkMode) =>
    /\ \A i, j \in 1..Len(results) :
         /\ results[i].status = results[j].status
         /\ results[i].msg = results[j].msg
         /\ results[i].errors = results[j].errors
    /\ pres = NewDeck

C8_Witness ==
  /\ mode = "lib" /\ checkMode /\ Len(results) = 2
  /\ results[1].status = "err" /\ results[2].status = "err"
  /\ Len(results[2].msg.items) >= 2
  /\ results[1].doc.fault = "none"

\* the measured document of the call in progress
Measured == browser.launched /\ cur.doc.fault \notin {"newPage", "goto", "dims"}
              /\ pc \notin {"h_newPage", "h_goto", "h_dims"}
HeightDiffPx == bodyDimensions.scrollHeight - EffectiveHeight(bodyDimensions)
OverflowFindings == {k \in 1..Len(bodyDimensions.errors) : bodyDimensions.errors[k].kind = "overflow"}

BodyMatchesLayout(doc) ==
  /\ Abs(PxToEmu(BoxW(doc.body)) - pres.layoutW) <= EMU_PER_IN
  /\ Abs(PxToEmu(BoxH(doc.body)) - pres.layoutH) <= EMU_PER_IN
C10_CleanDocumentValidates ==
  (browser.launched /\ pc = "h_decide"
     /\ BodyMatchesLayout(cur.doc)
     /\ cur.doc.slideData.errors = << >>
     /\ TableStructureFrom(cur.doc.slideData.elements, 1) = << >>
     /\ cur.doc.body.scrollH <= BoxH(cur.doc.body)
     /\ validateTextBoxPosition(cur.doc.slideData, bodyDimensions) = << >>)
  => validationErrors = << >>

\* ------------------------------------------------- properties of page.evaluate: geometry
RotationKnown == evalPc \in {"getPositionAndSize", "done"}
CombinedAngle == WritingModeAngle(evalIn.writingMode) + TransformAngle(evalIn.transform)

\* C11: getRotation yields null exactly when the combined angle of writing mode and transform
\* is a multiple of 360 degrees, and otherwise the angle congruent to it in [0, 360), for
\* every writing mode and for positive and negative rotations; vertical-rl alone gives 90,
\* vertical-lr alone gives 270, vertical-rl with rotate(10deg) gives 100.
C11_RotationNormalized ==
  RotationKnown =>
    /\ evalOut.rotation.null <=> (CombinedAngle % FULL_TURN = 0)
    /\ ~evalOut.rotation.null =>
         /\ evalOut.rotation.angle >= 0 /\ evalOut.rotation.angle < FULL_TURN
         /\ (evalOut.rotation.angle - CombinedAngle) % FULL_TURN = 0
    /\ (evalIn.writingMode = "vertical-rl" /\ evalIn.transform = NoTransform)
         => evalOut.rotation = Rotation(90 * DEG)
    /\ (evalIn.writingMode = "vertical-lr" /\ evalIn.transform = NoTransform)
         => evalOut.rotation = Rotation(270 * DEG)
    /\ (evalIn.writingMode = "vertical-rl" /\ evalIn.transform = RotateFn(10 * DEG))
         => evalOut.rotation = Rotation(100 * DEG)

\* a negative rotation that the remainder leaves negative has been normalized
C11_Witness ==
  /\ RotationKnown
  /\ evalIn.transform.kind = "rotate" /\ CombinedAngle < 0
  /\ evalOut.rotation = Rotation(CombinedAngle + FULL_TURN)

\* C12: for a rotation of exactly 90 or 270 degrees the reported width is the rendered height,
\* the reported height is the rendered width and the centre of the box stays where it was;
\* with no rotation the rendered box is reported unchanged.
C12_QuarterTurnSwapsBox ==
  evalPc = "done" =>
    LET rect == evalIn.rect
        pos == evalOut.pos
        rotation == evalOut.rotation
    IN  /\ (~rotation.null /\ rotation.angle \in {90 * DEG, 270 * DEG}) =>
             /\ pos.w = rect.height /\ pos.h = rect.width
             /\ pos.x2 + pos.w = 2 * rect.left + rect.width
             /\ pos.y2 + pos.h = 2 * rect.top + rect.height
        /\ rotation.null =>
             /\ pos.w = rect.width /\ pos.h = rect.height
             /\ pos.x2 = 2 * rect.left /\ pos.y2 = 2 * rect.top

\* a box of different width and height turned by 270 degrees through a negative rotation
C12_Witness ==
  /\ evalPc = "done"
  /\ evalIn.transform = RotateFn(0 - 90 * DEG) /\ evalIn.writingMode = "horizontal-tb"
  /\ evalOut.rotation = Rotation(270 * DEG)
  /\ evalIn.rect.width # evalIn.rect.height
  /\ evalOut.pos.w = evalIn.rect.height

\* ------------------------------------------------- properties of page.evaluate: tables
TableValidated == evalPc \in {"addElements", "emitted"} /\ Len(evalOut.elements) = 1
RECURSIVE SumNum(_, _)
SumNum(ratios, i) == IF i > Len(ratios) THEN 0 ELSE ratios[i].num + SumNum(ratios, i + 1)
\* the ratios add up to exactly 1
SumsToOne(ratios) == Len(ratios) > 0 /\ SumNum(ratios, 1) = ratios[1].den
\* the cells the ratios were taken from fill the table's width
ChosenCellsFillWidth ==
  /\ Len(ColWidthCells(evalIn)) = Len(LayoutRow(evalIn.head, evalIn.rows))
  /\ SumWidths(LayoutRow(evalIn.head, evalIn.rows), 1) = evalIn.rect.width

C14_EmittedTablesAreRectangular ==
  /\ (evalPc \in {"addElements", "emitted"}) =>
       \A k \in 1..Len(evalOut.elements) :
         LET el == evalOut.elements[k]
         IN  /\ Len(el.colWidths) > 0 /\ Len(el.data) > 0
             /\ \A r \in 1..Len(el.data) : Len(el.data[r]) = Len(el.colWidths)
  /\ (evalPc \in {"addElements", "emitted", "thrown"}) =>
       \A k \in 1..Len(evalOut.elements) :
         LET el == evalOut.elements[k]
         IN  (\/ Len(el.colWidths) = 0 \/ Len(el.data) = 0
              \/ \E r \in 1..Len(el.data) : Len(el.data[r]) # Len(el.colWidths))
               => (evalPc = "thrown" /\ evalOut.errors # << >>)

\* a table whose second row is one cell short was refused only for that row
C14_Witness ==
  /\ evalPc = "thrown" /\ Len(evalOut.elements) = 1
  /\ Len(evalOut.elements[1].colWidths) = 2
  /\ Len(evalOut.elements[1].data) = 2
  /\ Len(evalOut.elements[1].data[1]) = 2 /\ Len(evalOut.elements[1].data[2]) = 1
  /\ Len(evalOut.errors) = 1 /\ evalOut.errors[1].kind = "table-columns"

HeaderRowOfThs ==
  /\ Len(evalIn.head) = 0 /\ Len(evalIn.rows) > 0
  /\ Len(evalIn.rows[1]) > 0 /\ \A i \in 1..Len(evalIn.rows[1]) : IsTH(evalIn.rows[1][i])

\* C18: for a table without a head section whose first row consists only of th cells, the
\* fallback yields one ratio per header cell and a first row with that many cells, so the
\* header row causes neither a no-column-widths finding nor a column-count finding.
C18_ThFirstRowIsHeader ==
  (HeaderRowOfThs /\ evalPc \in {"addElements", "emitted", "thrown"}
     /\ Len(evalOut.elements) = 1) =>
    LET el == evalOut.elements[1]
    IN  /\ Len(el.colWidths) = Len(evalIn.rows[1])
        /\ Len(el.data[1]) = Len(el.colWidths)
        /\ \A e \in 1..Len(evalOut.errors) :
             /\ evalOut.errors[e].kind # "table-no-colwidths"
             /\ evalOut.errors[e].kind = "table-columns" => evalOut.errors[e].txt # <<1>>

\* a th-only first row followed by a td row of the same length went through to the emitter
C18_Witness ==
  /\ HeaderRowOfThs /\ evalPc = "emitted"
  /\ Len(evalIn.rows) = 2 /\ Len(evalIn.rows[1]) = 2
  /\ \A i \in 1..Len(evalIn.rows[2]) : IsTD(evalIn.rows[2][i])
  /\ Len(evalOut.colW) = 2

\* ------------------------------------------------- properties of page.evaluate: inline runs
Parsed == evalPc = "parsed"
\* the element opened at k is passed over without recursion
PassedOver(tokens, k) ==
  /\ tokens[k].kind = "open"
  /\ (~ElementHasText(tokens, k) \/ tokens[k].tag \notin StyledTags \/ tokens[k].icon)
InsidePassedOver(tokens, i) ==
  \E k \in 1..(i - 1) : PassedOver(tokens, k) /\ MatchingClose(tokens, k + 1, 0) > i
IsFragment(tokens, i, preserveSpaces) ==
  /\ tokens[i].kind \in {"text", "br"}
  /\ ~InsidePassedOver(tokens, i)
  /\ ~SkippedFragment(tokens[i], preserveSpaces)
IsIcon(tokens, i) ==
  /\ tokens[i].kind = "open" /\ tokens[i].icon /\ tokens[i].tag \in StyledTags
  /\ ElementHasText(tokens, i) /\ ~InsidePassedOver(tokens, i)
RECURSIVE AfterTextSibling(_, _, _)
\* the sibling before position i is a text node, a line break or an icon
AfterTextSibling(tokens, i, preserveSpaces) ==
  IF i = 1 THEN FALSE
  ELSE LET prev == tokens[i - 1] IN
    CASE prev.kind = "br" -> TRUE
      [] prev.kind = "text" ->
           IF SkippedFragment(prev, preserveSpaces)
             THEN AfterTextSibling(tokens, i - 1, preserveSpaces) ELSE TRUE
      [] prev.kind = "close" ->
           \E k \in 1..(i - 2) : IsIcon(tokens, k) /\ MatchingClose(tokens, k + 1, 0) = i - 1
      [] OTHER -> FALSE
\* positions where a maximal group of consecutive text / line-break children begins
GroupStarts(tokens, preserveSpaces) ==
  { i \in 1..Len(tokens) :
      /\ IsFragment(tokens, i, preserveSpaces) \/ IsIcon(tokens, i)
      /\ ~AfterTextSibling(tokens, i, preserveSpaces) }

OuterTrimmedRuns ==
  SelectSeq(TrimEnds(ParseFrom(evalIn.tokens, 1, << >>, << Frame(NoOptions, FALSE) >>,
                               [preserveSpaces |-> evalIn.preserveSpaces, trimNested |-> FALSE])),
            NonEmptyRun)

\* C17: leading whitespace is stripped only from the first run and trailing whitespace only
\* from the last run of the complete sequence; whitespace that ends an interior run, such as
\* the last run of a nested styling element followed by more content, is preserved.
C17_OnlyOuterWhitespaceTrimmed ==
  Parsed => evalOut.result = OuterTrimmedRuns

\* ------------------------------------------------- properties of page.evaluate: the walk
Returned == evalPc = "returned"
UnwrappedFindings(i) ==
  { e \in 1..Len(evalOut.errors) :
      evalOut.errors[e].kind = "unwrapped-text" /\ evalOut.errors[e].a = i }

Represents(e, i) == e.node = i \/ i \in e.content

\* C19: each rendered node is represented in exactly one element; nodes consumed by a list
\* or by the runs of an enclosing text block (an <i> or <span> inside a paragraph, the <li>
\* of a nested list) are never emitted again on their own.
C19_NodesEmittedOnce ==
  Returned =>
    \A i \in 1..Len(evalIn) :
      Cardinality({ k \in 1..Len(evalOut.elements) : Represents(evalOut.elements[k], i) }) <= 1

\* C20: every positioned element, rotated or not, and every placeholder has positive width
\* and height; a node of zero width or height never yields an element.
C20_PositiveExtent ==
  Returned =>
    /\ \A k \in 1..Len(evalOut.elements) :
         evalOut.elements[k].position.w > 0 /\ evalOut.elements[k].position.h > 0
    /\ \A k \in 1..Len(evalOut.placeholders) :
         evalOut.placeholders[k].position.w > 0 /\ evalOut.placeholders[k].position.h > 0
    /\ \A i \in 1..Len(evalIn) :
         (evalIn[i].box.w = 0 \/ evalIn[i].box.h = 0) =>
           \A k \in 1..Len(evalOut.elements) : evalOut.elements[k].node # i

Visited == evalPc = "visited"
IsPercent(t) == t.null \/ t.v \in 0..100
\* the transparency the source colour's alpha stands for: round((1 - alpha) * 100)
AlphaPercent(c) == (ALPHA_ONE - c.alpha + 5) \div 10
ShapesOut == {k \in 1..Len(evalOut.elements) : evalOut.elements[k].type = "shape"}
LinesOut == {k \in 1..Len(evalOut.elements) : evalOut.elements[k].type = "line"}

\* C21: every transparency placed in the slide model is a whole percentage in 0..100, and
\* when it comes from a colour with alpha below 1 it is round((1 - alpha) * 100) of that alpha;
\* this covers the style of text elements and the fill of shapes.
C21_TransparencyIsPercentOfAlpha ==
  Visited =>
    /\ IsPercent(evalOut.transparency)
    /\ (evalIn.tag = "P" /\ evalIn.color.alpha < ALPHA_ONE
          => evalOut.transparency = Number(AlphaPercent(evalIn.color)))
    /\ \A k \in ShapesOut :
         /\ IsPercent(evalOut.elements[k].transparency)
         /\ (evalIn.backgroundColor.alpha < ALPHA_ONE /\ evalOut.elements[k].fill # ""
               => evalOut.elements[k].transparency = Number(AlphaPercent(evalIn.backgroundColor)))

VisitedContainer ==
  Visited /\ evalIn.tag = "DIV" /\ evalIn.rect.width > 0 /\ evalIn.rect.height > 0
EqualEdges(borders) == borders[1] > 0 /\ \A k \in 1..4 : borders[k] = borders[1]
UnequalEdges(borders) == \E j, k \in 1..4 : borders[j] # borders[k]
\* the stroke of a border of widthPx, in twips: 0.7pt per px, 20 twips per point
StrokeTwips(widthPx) == 14 * widthPx
\* the line of an edge runs along it, moved inwards by inset
LineAlongEdge(l, rect, inset) ==
  LET x == TWIPS_PER_PX * rect.left
      y == TWIPS_PER_PX * rect.top
      w == TWIPS_PER_PX * rect.width
      h == TWIPS_PER_PX * rect.height
  IN CASE l.edge = "top"    -> <<l.x1, l.y1, l.x2, l.y2>> = <<x, y + inset, x + w, y + inset>>
       [] l.edge = "right"  -> <<l.x1, l.y1, l.x2, l.y2>> = <<x + w - inset, y, x + w - inset, y + h>>
       [] l.edge = "bottom" -> <<l.x1, l.y1, l.x2, l.y2>> = <<x, y + h - inset, x + w, y + h - inset>>
       [] l.edge = "left"   -> <<l.x1, l.y1, l.x2, l.y2>> = <<x + inset, y, x + inset, y + h>>

\* C22: a container of positive area with the same positive border width on all four edges
\* yields one shape that carries the border and no line; with unequal edge widths it yields
\* exactly one line per edge of non-zero width, inset by half that edge's stroke width, no
\* border on the shape, a shape only when it also has a background, and the shape before
\* the lines.
C22_BordersBecomeShapeOrLines ==
  VisitedContainer =>
    LET out == evalOut.elements
        b == evalIn.borders
    IN /\ EqualEdges(b) =>
            /\ Len(out) = 1 /\ out[1].type = "shape"
            /\ out[1].line = Number(b[1])
       /\ UnequalEdges(b) =>
            /\ \A k \in 1..4 :
                 Cardinality({i \in LinesOut : out[i].edge = Edges[k]})
                   = IF b[k] > 0 THEN 1 ELSE 0
            /\ \A i \in LinesOut :
                 \E k \in 1..4 :
                   /\ out[i].edge = Edges[k] /\ out[i].width = b[k]
                   /\ \E inset \in 0..StrokeTwips(b[k]) :
                        2 * inset = StrokeTwips(b[k]) /\ LineAlongEdge(out[i], evalIn.rect, inset)
            /\ \A i \in ShapesOut : out[i].line.null
            /\ (ShapesOut # {}) = (evalIn.backgroundColor # TRANSPARENT)
            /\ Cardinality(ShapesOut) <= 1
            /\ \A i \in ShapesOut, j \in LinesOut : i < j
C22_Witness ==
  /\ VisitedContainer
  /\ UnequalEdges(evalIn.borders)
  /\ evalIn.backgroundColor # TRANSPARENT
  /\ Cardinality(LinesOut) >= 2 /\ Cardinality(ShapesOut) = 1

DimensionsValidated == evalPc \in {"validateTextBoxPosition", "validated"}
\* of the body size and the detected container size (0: none), the one closer to the target;
\* the body size on a tie
CloserTo(target, bodyPx, containerPx) ==
  IF containerPx # 0 /\ Abs(PxToEmu(containerPx) - target) < Abs(PxToEmu(bodyPx) - target)
  THEN PxToEmu(containerPx) ELSE PxToEmu(bodyPx)
OffByMoreThanAnInch(target, size) == size - target > EMU_PER_IN \/ target - size > EMU_PER_IN

\* C23: with a page layout set, validateDimensions reports a layout-size finding exactly when
\* on at least one axis the compared size is more than 1 inch off the page size; on each axis
\* by itself the compared size is the one of body size and container size closer to the page
\* size (the body size without a container or on a tie); exactly 1 inch off is accepted.
C23_SizeFindingIffOffByMoreThanAnInch ==
  DimensionsValidated /\ evalIn.pres.hasLayout =>
    LET bd == evalOut.bodyDimensions
        w == CloserTo(evalIn.pres.layoutW, bd.width, bd.containerWidth)
        h == CloserTo(evalIn.pres.layoutH, bd.height, bd.containerHeight)
    IN /\ Len(evalOut.dimensionErrors) <= 1
       /\ (Len(evalOut.dimensionErrors) = 1)
            = (OffByMoreThanAnInch(evalIn.pres.layoutW, w) \/ OffByMoreThanAnInch(evalIn.pres.layoutH, h))
\* the container is compared on the width and the body on the height, the width is exactly
\* one inch off, and nothing is reported
C23_Witness ==
  /\ DimensionsValidated /\ evalIn.pres.hasLayout
  /\ evalOut.bodyDimensions.containerWidth = 1056 /\ evalOut.bodyDimensions.width = 1200
  /\ evalOut.bodyDimensions.containerHeight = 700 /\ evalOut.bodyDimensions.height = 540
  /\ evalOut.dimensionErrors = << >>

TextBoxesValidated == evalPc = "validated"
\* the text and list elements of the slide model: headings, paragraphs, list blocks, list
\* items, preformatted and code blocks
TextOrListTypes == {"p", "h1", "h2", "h3", "h4", "h5", "h6", "list", "li", "pre", "code"}
\* font size above 12pt and bottom edge less than 0.5in (48 px) above the page bottom
CrowdsBottom(el, bd) ==
  /\ el.style.fontSize > 120
  /\ 2 * (bd.height - (el.position.y + el.position.h)) < PX_PER_IN

\* C24: every text or list element (heading, paragraph, list block, list item, preformatted
\* or code block) with a font size above 12pt whose bottom edge is less than 0.5in above the
\* page bottom produces one bottom-margin finding, and no other element produces one.
C24_EveryCrowdingTextElementFlagged ==
  TextBoxesValidated =>
    LET els == evalIn.doc.slideData.elements
    IN Len(evalOut.textBoxPositionErrors)
         = Cardinality({i \in 1..Len(els) :
                          els[i].type \in TextOrListTypes /\ CrowdsBottom(els[i], evalOut.bodyDimensions)})

PlainTextTags == {"P", "H1", "H2", "H3", "H4", "H5", "H6", "UL", "OL", "LI"}
StyledTextFindings(i) ==
  { e \in 1..Len(evalOut.errors) :
      evalOut.errors[e].kind = "styled-text-tag" /\ evalOut.errors[e].a = i }
EmittedFrom(i) == { e \in 1..Len(evalOut.elements) : evalOut.elements[e].node = i }

\* C25: a paragraph, heading, list or list item that carries a background, a border or a
\* box-shadow produces one unsupported-feature finding and no element; a PRE or CODE element
\* carrying such styling produces no finding and no element.
C25_StyledTextTagsRejectedOrSkipped ==
  Returned =>
    \A i \in 1..Len(evalIn) :
      HasBoxStyling(evalIn[i]) =>
        /\ evalIn[i].tag \in PlainTextTags =>
             Cardinality(StyledTextFindings(i)) = 1 /\ EmittedFrom(i) = {}
        /\ evalIn[i].tag \in {"PRE", "CODE"} =>
             StyledTextFindings(i) = {} /\ EmittedFrom(i) = {}

\* C26: for every data cell with inline-styling children the extracted text is either a run
\* list or the cell's trimmed plain text (also when the run list is empty), and no cell makes
\* the extraction raise an exception.
C26_CellTextIsRunsOrTrimmedText ==
  /\ evalPc # "thrown"
  /\ evalPc = "extracted" /\ HasInlineFormatting(evalIn) =>
       \/ evalOut.kind = "runs" /\ evalOut.runs # << >>
       \/ evalOut = StringText(TrimmedText(evalIn))

CheckRunEnded == mode = "check" /\ pc = "exit"
FailedCalls == { k \in 1..Len(results) : results[k].status = "err" }
RECURSIVE FailureEntries(_)
\* one entry per failed call, in the order of the calls
FailureEntries(k) ==
  IF k > Len(results) THEN << >>
  ELSE (IF results[k].status = "err"
        THEN << [slide |-> results[k].file, error |-> results[k].msg] >> ELSE << >>)
       \o FailureEntries(k + 1)
\* every collected slide was checked, in slide order, whatever became of the ones before it;
\* the failures were collected in that order and nothing was written
AllSlidesChecked ==
  /\ Len(results) = Len(slides)
  /\ \A k \in 1..Len(slides) : results[k].file = slides[k].file /\ results[k].checkMode
  /\ checkErrors = FailureEntries(1)
  /\ writes = 0
  /\ pres.slides = << >>

\* C27 as stated: a directory check run checks every collected slide, collects one error
\* entry per failing slide in slide order, writes no file, and ends with status 1 exactly
\* when at least one slide failed.
C27_StatusOneIffSomeSlideFailed ==
  CheckRunEnded => AllSlidesChecked /\ ((exitCode = 1) = (FailedCalls # {}))

\* C27: the same for a run that collected at least one slide; a run that collected none ends
\* with status 1 without checking anything.
C27_CheckRunReportsEveryFailure ==
  CheckRunEnded =>
    /\ AllSlidesChecked
    /\ exitCode \in {0, 1}
    /\ (exitCode = 1) = (FailedCalls # {} \/ slides = << >>)
C27_Witness ==
  /\ CheckRunEnded /\ Len(slides) = 2
  /\ results[1].status = "err" /\ results[2].status = "ok"
  /\ Len(checkErrors) = 1 /\ exitCode = 1

Rendering == pc \in {"h_newPage", "h_goto", "h_dims", "h_viewport"}
Extracting == pc = "h_extract"
Validating == pc = "h_validate"
Emitting == pc \in {"h_background", "h_elements"}
PrimitivesOfThisCall == { k \in 1..Len(calls) : calls[k].call = callNo }

\* C28: for each document the stages run in the order render, extract, validate, emit without
\* overlap: extraction starts from the measured page, validation from the extracted slide
\* data, no deck primitive is invoked before every validation check has completed without a
\* finding, and the browser session is closed when validation and emission take place.
C28_StagesInStrictOrder ==
  /\ Rendering \/ Extracting \/ pc = "h_finally" \/ Validating =>
       PrimitivesOfThisCall = {} /\ validationErrors = << >>
  /\ Rendering \/ Extracting => callNo \in sessions /\ browser.closes = 0
  /\ Extracting => bodyDimensions = getBodyDimensions(cur.doc) /\ slideData = NoSlideData
  /\ Validating \/ pc = "h_decide" \/ Emitting =>
       /\ callNo \notin sessions /\ browser.closes = 1
       /\ bodyDimensions = getBodyDimensions(cur.doc) /\ slideData = cur.doc.slideData
  /\ PrimitivesOfThisCall # {} =>
       /\ validationErrors = << >>
       /\ CollectValidationErrors(bodyDimensions, slideData, NewDeck) = << >>
       /\ callNo \notin sessions
C28_Witness ==
  /\ pc = "h_elements" /\ elemIdx > 1
  /\ Cardinality(PrimitivesOfThisCall) >= 2
  /\ callNo \notin sessions /\ browser.closes = 1

\* the containers that stand for rewritten spans with text and a rendered box
SpanContainers ==
  { d \in 1..Len(evalOut.tree) :
      /\ evalOut.tree[d].tag = "DIV" /\ evalOut.tree[d].spanProcessed
      /\ ~EmptyRect(NodeRect(evalOut.tree[d]))
      /\ HasText(evalOut.tree, d) }
ShapesOf(d) ==
  { k \in 1..Len(evalOut.elements) :
      evalOut.elements[k].type = "shape" /\ evalOut.elements[k].node = d }
\* the text elements that carry the text of node t
TextElementsWith(t) ==
  { k \in 1..Len(evalOut.elements) :
      evalOut.elements[k].type # "shape" /\ t \in evalOut.elements[k].content }

\* C29: when a styled span is rewritten into a container and a nested text, no text is lost:
\* if the extraction reports no finding, the container yields one shape without text and the
\* span's text is carried by exactly one emitted text element.
C29_SpanTextEmittedOnce ==
  Returned /\ evalOut.errors = << >> =>
    \A d \in SpanContainers :
      /\ Cardinality(ShapesOf(d)) = 1
      /\ \A k \in ShapesOf(d) : evalOut.elements[k].content = {}
      /\ Cardinality(TextElementsWith(d + 1)) = 1

Placed == evalPc = "placed"
\* the selectors whose match is positive in both dimensions and narrower than the body
Qualifying ==
  { i \in 1..Len(containerSelectors) :
      /\ evalIn.doc.query[i].present
      /\ BoxW(evalIn.doc.query[i]) > 0 /\ BoxH(evalIn.doc.query[i]) > 0
      /\ BoxW(evalIn.doc.query[i]) < evalIn.doc.body.offsetW }

\* C30: the slide container is the first match of the selector list that is smaller than the
\* body and positive in both dimensions, and it is the same element in both places: its size
\* is the effective content box and its corner is the origin of the coordinates; when no
\* match qualifies, there is no container size and coordinates are relative to the page.
C30_OneContainerForSizeAndOrigin ==
  Placed =>
    IF Qualifying = {}
      THEN /\ evalOut.bodyDimensions.containerWidth = 0
           /\ evalOut.containerOffset = [x |-> 0, y |-> 0]
           /\ evalOut.rect = evalIn.rect
      ELSE LET c == evalIn.doc.query[CHOOSE i \in Qualifying : \A j \in Qualifying : i <= j]
           IN /\ evalOut.bodyDimensions.containerWidth = BoxW(c)
              /\ evalOut.bodyDimensions.containerHeight = BoxH(c)
              /\ evalOut.containerOffset = [x |-> c.left, y |-> c.top]

====
